---------------------------- MODULE Spec2Model ----------------------------
(***************************************************************************)
(* Quote-to-visit booking service: the two booking paths of webapp.py      *)
(* (POST /book-job and POST /webhook/jobber with its background task),     *)
(* the scheduler they call and the two tables they write.                  *)
(*                                                                         *)
(* Time is counted in seconds from a Monday 00:00, so weekday(t) is        *)
(* (t \div 86400) % 7 with 0 = Monday as in datetime.weekday().  Stored    *)
(* timestamps are isoformat() strings of datetimes in one fixed zone;      *)
(* fromisoformat(isoformat(x)) = x there, and the model keeps the count    *)
(* of seconds itself.                                                      *)
(***************************************************************************)
EXTENDS Integers, Sequences, FiniteSets, TLC

\* ------------------------------------------------------------------ bounds
MaxTasks == 2

Tasks == 1..MaxTasks
\* No task holds the lock.
NoTask == 0

\* --------------------------------------------------------- scheduler.py
WORK_START == 8
WORK_END == 20
grace_period == 30
max_days_to_check == 30
HOLIDAYS == {}
Infinity == 100000000

\* timedelta(hours=h), timedelta(minutes=m), timedelta(days=d)
hours(h) == h * 3600
minutes(m) == m * 60
days(d) == d * 86400

Day(t) == t \div days(1)
DayStart(t) == days(Day(t)) + hours(WORK_START)
DayEnd(t) == days(Day(t)) + hours(WORK_END)
Hour(t) == (t % days(1)) \div 3600
Minute(t) == (t % 3600) \div 60
Weekday(t) == Day(t) % 7

None == [none |-> TRUE]

is_workday(d, allow_friday) ==
    LET is_weekday == IF allow_friday THEN Weekday(d) < 5 ELSE Weekday(d) < 4
    IN  IF ~is_weekday THEN FALSE
        ELSE IF Day(d) \in HOLIDAYS THEN FALSE
        ELSE TRUE

\* scheduler.py 65-91 with whole hours only: remainder // 180
estimate_time_whole_hours(quote_cost) ==
    IF quote_cost <= 0 THEN -1
    ELSE hours((quote_cost \div 1440) * 8) + hours(((quote_cost % 1440) \div 720) * 4)
            + hours(((quote_cost % 1440) % 720) \div 180)

\* Costs are whole dollars: hours = remainder / 180 is 20 seconds a dollar.
estimate_time(quote_cost) ==
    IF quote_cost <= 0 THEN -1
    ELSE LET full_days == quote_cost \div 1440
             remainder1 == quote_cost % 1440
             chunks == remainder1 \div 720
             remainder2 == remainder1 % 720
         IN  hours(full_days * 8) + hours(chunks * 4) + remainder2 * 20

categorize_job_size_flat(duration) == "small"

categorize_job_size(duration) ==
    IF duration >= hours(8) THEN "large"
    ELSE IF duration >= hours(4) THEN "medium"
    ELSE "small"

check_availability_nograce(start_time, duration, visits) ==
    LET end_time == start_time + duration
    IN  \A visit \in visits :
            end_time <= visit.startAt \/ start_time >= visit.endAt

check_availability(start_time, duration, visits) ==
    LET end_time == start_time + duration
    IN  \A visit \in visits :
            LET visit_start == visit.startAt - minutes(grace_period)
                visit_end == visit.endAt + minutes(grace_period)
            IN  end_time <= visit_start \/ start_time >= visit_end

\* The free blocks of a day as a sequence of <<start, end>>, walking the
\* padded bookings of that day in order of start.
RECURSIVE FreeBlockWalk(_, _, _, _)
FreeBlockWalk(booked, current_start, day_end, free_blocks) ==
    IF booked = {}
    THEN IF current_start < day_end
         THEN Append(free_blocks, <<current_start, day_end>>)
         ELSE free_blocks
    ELSE LET b == CHOOSE x \in booked : \A y \in booked : x[1] <= y[1]
             blocks == IF current_start < b[1]
                       THEN Append(free_blocks, <<current_start, b[1]>>)
                       ELSE free_blocks
             next == IF current_start > b[2] THEN current_start ELSE b[2]
         IN  FreeBlockWalk(booked \ {b}, next, day_end, blocks)

\* slots is a set of <<startAt, endAt>> pairs.
get_day_free_blocks(day_date, slots) ==
    LET booked == { <<s[1] - minutes(grace_period), s[2] + minutes(grace_period)>> :
                      s \in { x \in slots :
                                Day(x[1] - minutes(grace_period)) = Day(day_date) } }
    IN  FreeBlockWalk(booked, DayStart(day_date), DayEnd(day_date), <<>>)

RECURSIVE SumSeq(_, _)
SumSeq(s, i) == IF i > Len(s) THEN 0 ELSE s[i] + SumSeq(s, i + 1)

\* The source's score is a float; this is 36 times it, so that
\* 100 * (1.5 - seconds / 3600) becomes 5400 - seconds.
calculate_fragmentation_score(day_date, visits, proposed_slot_start, proposed_slot_end) ==
    LET hypothetical == { <<v.startAt, v.endAt>> : v \in visits }
                            \cup { <<proposed_slot_start, proposed_slot_end>> }
        free_blocks == get_day_free_blocks(day_date, hypothetical)
        len(i) == free_blocks[i][2] - free_blocks[i][1]
        small == [i \in 1..Len(free_blocks) |->
                    IF len(i) < minutes(90) THEN minutes(90) - len(i) ELSE 0]
        can_place_4h == \E i \in 1..Len(free_blocks) :
                            len(i) >= hours(4) + 2 * minutes(grace_period)
        can_place_8h == \E i \in 1..Len(free_blocks) :
                            len(i) >= hours(8) + 2 * minutes(grace_period)
    IN  SumSeq(small, 1)
          + (IF can_place_4h THEN 0 ELSE 36 * 200)
          + (IF can_place_8h THEN 0 ELSE 36 * 300)
          + 36 * 10 * Len(free_blocks)

get_medium_job_preferred_blocks(day_date) ==
    << DayStart(day_date),
       DayStart(day_date) + hours(4) + minutes(30),
       DayStart(day_date) + hours(8) >>


\* --------------------------------------------------------- weather.py
\* The forecast is the provider's answer and is outside the program; a
\* profile fixes the confidence band check_weather_with_confidence derives
\* for each day.  "unavailable" is the fail-open answer of lines 119-127,
\* "clear" fine weather throughout, "storm" rain throughout, "mixed" a
\* week with a fair Wednesday and a doubtful Thursday in rain otherwise, and
\* "late" a week with a doubtful Monday and Thursday and a clear Wednesday.
Profiles == {"mixed", "storm"}

check_weather_with_confidence(profile, date) ==
    LET confidence ==
            CASE profile = "clear" -> "high"
              [] profile = "unavailable" -> "low"
              [] profile = "storm" -> "bad"
              [] profile = "late" -> CASE Day(date) \in {0, 3} -> "low"
                                       [] Day(date) = 2 -> "high"
                                       [] OTHER -> "bad"
              [] OTHER -> CASE Day(date) = 2 -> "medium"
                            [] Day(date) = 3 -> "low"
                            [] OTHER -> "bad"
    IN  [suitable |-> confidence # "bad", confidence |-> confidence]

\* ----------------------------------------------- scheduler.py: auto_book
\* Every 30-minute start of the day at which the job still ends by day_end.
DaySlots(d, duration) ==
    LET n == IF duration > hours(WORK_END - WORK_START) THEN 0
             ELSE (hours(WORK_END - WORK_START) - duration) \div minutes(30) + 1
    IN  [i \in 1..n |-> DayStart(d) + minutes(30) * (i - 1)]

candidate_slots(d, duration, visits, job_size) ==
    LET Free(s) == check_availability(s, duration, visits)
        preferred_starts == get_medium_job_preferred_blocks(d)
        Fits(s) == s + duration <= DayEnd(d) /\ Free(s)
        NotPreferredLarge(s) == s # DayStart(d) /\ Free(s)
        InPreferred(s) == \E i \in 1..Len(preferred_starts) : preferred_starts[i] = s
        NotPreferredMedium(s) == ~InPreferred(s) /\ Free(s)
    IN  CASE job_size = "large" ->
                (IF Free(DayStart(d)) THEN <<DayStart(d)>> ELSE <<>>)
                    \o SelectSeq(DaySlots(d, duration), NotPreferredLarge)
          [] job_size = "medium" ->
                SelectSeq(preferred_starts, Fits)
                    \o SelectSeq(DaySlots(d, duration), NotPreferredMedium)
          [] OTHER -> SelectSeq(DaySlots(d, duration), Free)

\* The loop of lines 342-379 over one day's candidates.  st carries
\* best_confirmed_slot, best_tentative_slot and best_slot_score.
RECURSIVE EvaluateCandidates(_, _, _, _, _, _, _, _, _)
EvaluateCandidates(cands, i, d, duration, visits, job_size, confidence, allow_tentative, st) ==
    IF i > Len(cands) THEN st
    ELSE LET slot_start == cands[i]
             slot_end == slot_start + duration
             frag_score == IF job_size = "small"
                           THEN calculate_fragmentation_score(d, visits, slot_start, slot_end)
                           ELSE 0
             slot_data(status) == [startAt |-> slot_start, endAt |-> slot_end,
                                   booking_status |-> status,
                                   weather_confidence |-> confidence]
             st2 ==
                IF confidence \in {"high", "medium"}
                THEN IF st.confirmed = None
                        \/ (slot_start < st.confirmed.startAt /\ frag_score < st.score)
                     THEN [st EXCEPT !.confirmed = slot_data("confirmed"),
                                     !.score = frag_score]
                     ELSE st
                ELSE IF allow_tentative /\ confidence = "low"
                THEN IF st.tentative = None \/ frag_score < st.score
                     THEN [st EXCEPT !.tentative = slot_data("tentative"),
                                     !.score = frag_score]
                     ELSE st
                ELSE st
         IN  IF st2.score <= Infinity
             THEN EvaluateCandidates(cands, i + 1, d, duration, visits, job_size,
                                     confidence, allow_tentative, st2)
             ELSE st2

RECURSIVE ScanDays(_, _, _, _, _, _, _, _)
ScanDays(d, days_checked, duration, visits, profile, allow_tentative, allow_friday, st) ==
    IF days_checked >= max_days_to_check THEN st
    ELSE LET weather_check == check_weather_with_confidence(profile, d)
             job_size == categorize_job_size(duration)
             st2 == IF is_workday(d, allow_friday) /\ weather_check.suitable
                    THEN EvaluateCandidates(candidate_slots(d, duration, visits, job_size),
                                            1, d, duration, visits, job_size,
                                            weather_check.confidence, allow_tentative, st)
                    ELSE st
         IN  IF st2.score <= Infinity
             THEN ScanDays(DayStart(d + days(1)), days_checked + 1, duration, visits,
                           profile, allow_tentative, allow_friday, st2)
             ELSE st2

auto_book_tentative_first(visits, start_date, duration, profile, allow_tentative, allow_friday) ==
    LET st == ScanDays(DayStart(start_date), 0, duration, visits, profile,
                       allow_tentative, allow_friday,
                       [confirmed |-> None, tentative |-> None, score |-> Infinity])
    IN  IF st.tentative # None /\ allow_tentative THEN st.tentative
        ELSE IF st.confirmed # None THEN st.confirmed
        ELSE None

\* city and client_id do not influence the result beyond the forecast asked
\* for; the forecast profile stands for the city's weather.
auto_book(visits, start_date, duration, profile, allow_tentative, allow_friday) ==
    LET st == ScanDays(DayStart(start_date), 0, duration, visits, profile,
                       allow_tentative, allow_friday,
                       [confirmed |-> None, tentative |-> None, score |-> Infinity])
    IN  IF st.confirmed # None THEN st.confirmed
        ELSE IF st.tentative # None /\ allow_tentative THEN st.tentative
        ELSE None

\* ------------------------------------------------- webapp.py: helpers
ceil_to_30(dt) ==
    LET hour_start == dt - (dt % 3600)
    IN  IF Minute(dt) = 0 \/ Minute(dt) = 30 THEN dt - (dt % 60)
        ELSE IF Minute(dt) < 30 THEN hour_start + minutes(30)
        ELSE hour_start + hours(1)

RECURSIVE NextWorkday(_)
NextWorkday(start_datetime) ==
    IF is_workday(start_datetime, FALSE) THEN start_datetime
    ELSE NextWorkday(DayStart(start_datetime + days(1)))

\* Lines 254-265 and 355-363: where the search for a slot starts.
search_start(now) ==
    LET rounded == ceil_to_30(now)
        clamped == IF Hour(rounded) < 8 THEN DayStart(rounded)
                   ELSE IF Hour(rounded) >= 20 THEN DayStart(rounded + days(1))
                   ELSE rounded
    IN  NextWorkday(clamped)


\* ------------------------------------------------------------ db.py
NoValue == "<none>"

\* db.py 117-153
get_visits(rows, include_tentative) ==
    IF include_tentative THEN rows
    ELSE { r \in rows : r.booking_status = "confirmed" }

\* db.py 156-190 with the tag and status stored as given
add_visit_as_given(rows, by, quote, start_at, end_at, client_id, job_tag, booking_status) ==
    rows \cup {[by |-> by, quote |-> quote, date |-> Day(start_at),
                client_id |-> IF client_id = NoValue THEN "C123" ELSE client_id,
                startAt |-> start_at, endAt |-> end_at,
                job_tag |-> job_tag, booking_status |-> booking_status]}

\* by and quote record which processing run added the row and for which
\* quote; no query reads them.  The autoincrement id is read by no query
\* either, and by keeps two rows with equal columns apart as the id does.
add_visit(rows, by, quote, start_at, end_at, client_id, job_tag, booking_status) ==
    rows \cup {[by |-> by, quote |-> quote,
                date |-> Day(start_at),
                client_id |-> IF client_id = NoValue THEN "C123" ELSE client_id,
                startAt |-> start_at, endAt |-> end_at,
                job_tag |-> IF job_tag \in {"commercial", "residential"}
                            THEN job_tag ELSE "residential",
                booking_status |-> IF booking_status \in {"confirmed", "tentative"}
                                   THEN booking_status ELSE "confirmed"]}

remove_visit_by_name(rows, name) == { r \in rows : r.client_id # name }

get_processed_quote(ledger, quote_id) ==
    IF \E r \in ledger : r.quote_id = quote_id
    THEN CHOOSE r \in ledger : r.quote_id = quote_id
    ELSE None

mark_quote_processed_replace(ledger, row) ==
    [rows |-> { r \in ledger : r.quote_id # row.quote_id } \cup {row},
     raised |-> "none"]

\* INSERT into a table whose primary key is quote_id.  processed_at, which
\* nothing reads back, is left out of the row.
mark_quote_processed(ledger, row) ==
    IF \E r \in ledger : r.quote_id = row.quote_id
    THEN [rows |-> ledger, raised |-> "IntegrityError"]
    ELSE [rows |-> ledger \cup {row}, raised |-> "none"]

\* ------------------------------------------------- job_classifier.py
\* The hits are the keyword scores of the address and the client name.
classify_job_tag(commercial_hits, residential_hits, quote_amount) ==
    LET commercial_score == commercial_hits + (IF quote_amount >= 1000 THEN 1 ELSE 0)
        residential_score == residential_hits
    IN  IF commercial_score > residential_score THEN "commercial"
        ELSE "residential"

\* --------------------------------------------------- webhook_verify.py
QUOTE_TOPICS == {"QUOTE_CREATE", "QUOTE_UPDATE", "QUOTE_APPROVED", "QUOTE_CONVERTED"}
JOBBER_CLIENT_ID == "app-ours"

\* The header is "" when absent, "valid" when it is the base64 HMAC of the
\* body under the client secret (always configured, settings.py 24-25) and
\* "forged" otherwise.
verify_jobber_webhook(signature_header) ==
    IF signature_header = "" THEN FALSE
    ELSE signature_header = "valid"

validate_webhook_app_id_lenient(app_id) == TRUE

validate_webhook_app_id(app_id) ==
    IF app_id = NoValue THEN TRUE
    ELSE app_id = JOBBER_CLIENT_ID

\* ------------------------------------------------------ the CRM's data
\* Quotes the CRM holds.  A1 is an item id under which the CRM returns
\* quote Q123 (webapp.py 550: quote.get("id", item_id) may differ from
\* itemId).  Q789 is a quote without a price: amounts.totalPrice is 0, or
\* absent and 0 by the default of webapp.py 565.
Quotes == {"Q123", "Q456", "Q789"}
ItemIds == Quotes \cup {"A1"}
QuoteIdOf(item_id) == IF item_id = "A1" THEN "Q123" ELSE item_id
ClientOf(quote_id) == IF quote_id = "Q123" THEN "C123" ELSE "C456"
CostOf(quote_id) ==
    CASE quote_id = "Q123" -> 500
      [] quote_id = "Q789" -> 0
      [] OTHER -> 1440

\* The quote of generate_mock_webhook() (mock_data.py 55-82) and of
\* _mock_quote_response (jobber_client.py 190-247).
MockQuote == [id |-> "Q123", client_id |-> "C123", cost |-> 500]

\* What tz_now() returns: Wednesday 10:15:20.
Now == days(2) + hours(10) + minutes(15) + 20

\* ------------------------------------------------------------ requests
\* A delivery to /webhook/jobber: whether the body parses, the signature
\* header, and the topic, itemId and appId of the payload.
BaseWebhook ==
    [well_formed |-> TRUE, signature |-> "valid", topic |-> "QUOTE_APPROVED",
     item_id |-> "Q123", app_id |-> JOBBER_CLIENT_ID]

WebhookRequests ==
    { BaseWebhook, [BaseWebhook EXCEPT !.item_id = "A1"] }
        \cup { [BaseWebhook EXCEPT !.item_id = "Q456", !.app_id = NoValue],
               [BaseWebhook EXCEPT !.app_id = "app-other"],
               [BaseWebhook EXCEPT !.signature = "forged"],
               [BaseWebhook EXCEPT !.well_formed = FALSE],
               [BaseWebhook EXCEPT !.topic = NoValue],
               [BaseWebhook EXCEPT !.topic = "JOB_CREATE"],
               [BaseWebhook EXCEPT !.item_id = NoValue],
               [BaseWebhook EXCEPT !.item_id = "Q789"] }

\* A request to /book-job: body is "json" for a JSON object, "empty" for no
\* body and "garbage" for anything else; cost is amounts.totalPrice where
\* the payload has one.
BaseBookJob ==
    [body |-> "json", id |-> "Q123", quoteStatus |-> "APPROVED", has_cost |-> TRUE,
     cost |-> CostOf("Q123")]

BookJobRequests ==
    { BaseBookJob, [BaseBookJob EXCEPT !.body = "empty"],
               [BaseBookJob EXCEPT !.body = "garbage"],
               [BaseBookJob EXCEPT !.id = NoValue],
               [BaseBookJob EXCEPT !.quoteStatus = NoValue],
               [BaseBookJob EXCEPT !.quoteStatus = "DRAFT"],
               [BaseBookJob EXCEPT !.has_cost = FALSE],
               [BaseBookJob EXCEPT !.cost = -50] }

\* ---------------------------------------------------------------- state
VARIABLES
    testMode,           \* TEST_MODE of the process environment
    access_token,       \* TRUE when oauth_tokens holds an access token
    now,                \* what tz_now() returns
    profile,            \* the weather the provider forecasts
    calander,           \* the bookings table
    processed_quotes,   \* the idempotency ledger
    BOOK_LOCK,          \* the task holding the asyncio.Lock, or NoTask
    tasks,              \* per request: its position and its local variables
    reply,              \* the HTTP response being sent, or None
    sched,              \* a caller of auto_book outside the booking paths
    refresh_token,      \* TRUE when oauth_tokens holds a refresh token
    crm_call,           \* a call under retry_with_backoff and its loop variables
    recurring_jobs,     \* the recurring_jobs table
    op                  \* the recurring-jobs or rescheduler call made last

\* No caller of auto_book outside the booking paths.
NoCaller ==
    [pc |-> "off", visits |-> {}, start_date |-> 0, duration |-> 0,
     allow_tentative |-> FALSE, allow_friday |-> FALSE, slot |-> None,
     results |-> <<>>]

\* No call under retry_with_backoff is being followed.
NoCall ==
    [pc |-> "off", func |-> "none", max_retries |-> 0, initial_delay |-> 0,
     max_delay |-> 0, exponential_base |-> 2,
     exceptions |-> {}, attempt |-> 0, delay |-> 0, last_exception |-> "none",
     invocations |-> 0, outcome |-> "none", raised |-> "none",
     posts |-> 0, only_401 |-> TRUE, refreshes |-> 0, refresh |-> "none",
     token |-> "held"]

\* No recurring-jobs or rescheduler call has been made.
NoOp ==
    [name |-> "none", seq |-> 0, req |-> None, id |-> 0, code |-> 0, result |-> None]

env == <<testMode, access_token, now, profile, sched, refresh_token, crm_call,
         recurring_jobs, op>>
vars == <<testMode, access_token, now, profile, calander, processed_quotes,
          BOOK_LOCK, tasks, reply, sched, refresh_token, crm_call,
          recurring_jobs, op>>

NoResponse == [code |-> 0, status |-> "", idempotent |-> FALSE, row |-> None]

Response(code, status) ==
    [code |-> code, status |-> status, idempotent |-> FALSE, row |-> None]

IdempotentResponse_plain(existing) ==
    [code |-> 200, status |-> "already scheduled", idempotent |-> FALSE, row |-> None]

\* webapp.py 185-192, 289-296, 524-531, 557-564
IdempotentResponse(existing) ==
    [code |-> 200, status |-> "already scheduled", idempotent |-> TRUE,
     row |-> [start_at |-> existing.start_at, end_at |-> existing.end_at,
              job_id |-> existing.job_id, client_id |-> existing.client_id]]

Accepted_ok == Response(200, "accepted")

\* webapp.py 635-642
Accepted == Response(202, "accepted")

\* job_created, visit, marked, added and escaped record what the run has
\* done so far; the code does not read them.  resp is the response the
\* request of a queued background task was given.
IdleTask ==
    [kind |-> "none", pc |-> "idle", req |-> None,
     quote_id |-> NoValue, client_id |-> NoValue, cost |-> 0,
     visits |-> {}, slot |-> None, job_id |-> NoValue,
     resp |-> NoResponse,
     job_created |-> FALSE, visit |-> "none", marked |-> FALSE,
     added |-> FALSE, escaped |-> "none"]

Init ==
    /\ testMode \in BOOLEAN
    /\ access_token \in BOOLEAN
    /\ testMode => access_token
    /\ now = Now
    /\ profile \in Profiles
    /\ calander = {}
    /\ processed_quotes = {}
    /\ BOOK_LOCK = NoTask
    /\ tasks = [t \in Tasks |-> IdleTask]
    /\ reply = None
    /\ sched = NoCaller
    /\ refresh_token = FALSE    \* only a refresh stores one (jobber_client.py 165)
    /\ crm_call = NoCall
    /\ recurring_jobs = {}
    /\ op = NoOp

\* webapp.py 64-71
get_access_token == IF testMode THEN TRUE ELSE access_token

\* Requests are numbered in the order in which they come to await something.
Arrives(t) ==
    /\ tasks[t].pc = "idle"
    /\ \A u \in Tasks : u < t => tasks[u].pc # "idle"

\* A handler or task ends: its locals are dropped, and of the record of
\* what it did the response given and the outcomes of create_job, of
\* create_visit and of the ledger insert stay.
Finish(r) ==
    [IdleTask EXCEPT !.kind = r.kind, !.pc = "done", !.resp = r.resp,
                     !.job_created = r.job_created, !.visit = r.visit,
                     !.marked = r.marked]

\* The response to request, given at stage "receive" (before the handler
\* awaited anything), "fetched" (after get_quote) or "final"; quote_id is
\* the id of the quote the handler holds by then and quote_status the
\* status the CRM returned for it.
Reply(kind, stage, request, quote_id, quote_status, response) ==
    [kind |-> kind, stage |-> stage, request |-> request, quote_id |-> quote_id,
     quote_status |-> quote_status, response |-> response]

\* An HTTP handler ends with an exception other than HTTPException.
ServerError(exc) == Response(500, exc)

CaughtInBackground_narrow(exc) == exc = "ValueError"

\* webapp.py 417: except Exception
CaughtInBackground(exc) ==
    exc \in {"ValueError", "HTTPStatusError", "IntegrityError", "NotImplementedError"}

\* The background task ends with exc raised inside its try block.
BackgroundRaise(r, exc) ==
    IF CaughtInBackground(exc)
    THEN Finish(r)
    ELSE [Finish(r) EXCEPT !.escaped = exc]

\* What a JobberClient mutation can end with: the mock of TEST_MODE always
\* answers; otherwise the call returns, raises ValueError (GraphQL errors,
\* userErrors, empty result) or raises the transport error left after the
\* retries.
CrmOutcomes == IF testMode THEN {"ok"} ELSE {"ok", "ValueError", "HTTPStatusError"}

\* The legacy create_job, notify_team and notify_client of jobber_client.py
\* 652-703.
LegacyOutcome == IF testMode THEN "ok" ELSE "NotImplementedError"


\* ------------------------------------------ POST /webhook/jobber, 460-542
\* What the handler does with request before it awaits client.get_quote:
\* the response it gives, or None when it goes on to fetch the quote.
webhook_check(request, ledger) ==
    LET existing == get_processed_quote(ledger, request.item_id)
    IN  IF ~testMode /\ ~verify_jobber_webhook(request.signature)
        THEN Response(401, "Invalid webhook signature")
        ELSE IF ~request.well_formed
        THEN Response(400, "Invalid webhook payload")
        ELSE IF request.topic = NoValue \/ request.item_id = NoValue
        THEN Response(400, "Missing topic or itemId in webhook")
        ELSE IF ~validate_webhook_app_id(request.app_id)
        THEN Response(401, "Invalid appId in webhook")
        ELSE IF request.topic \notin QUOTE_TOPICS
        THEN Response(200, "ignored")
        ELSE IF existing # None
        THEN IdempotentResponse(existing)
        ELSE IF ~get_access_token /\ ~testMode
        THEN Response(401, "Not authorized - no access token")
        ELSE None

\* The deliveries there can be: the mock of TEST_MODE returns one quote,
\* priced 500, under whatever id is asked for, so an itemId other than the
\* quote's id and a quote without a price exist only with the real CRM.
Deliveries ==
    IF testMode
    THEN { request \in WebhookRequests : request.item_id \notin {"A1", "Q789"} }
    ELSE WebhookRequests

WebhookReceive(t) ==
    /\ Arrives(t)
    /\ \E request \in Deliveries :
        LET response == webhook_check(request, processed_quotes)
        IN  IF response # None
            THEN /\ reply' = Reply("webhook", "receive", request, NoValue, NoValue, response)
                 /\ UNCHANGED tasks
            ELSE /\ tasks' = [tasks EXCEPT ![t] =
                        [@ EXCEPT !.kind = "webhook", !.pc = "get_quote",
                                  !.req = request]]
                 /\ UNCHANGED reply
    /\ UNCHANGED <<env, calander, processed_quotes, BOOK_LOCK>>

\* What get_quote can end with.  The mock of TEST_MODE echoes the id asked
\* for with status approved (jobber_client.py 190-197).
QuoteOutcomes ==
    IF testMode THEN {"approved"}
    ELSE {"approved", "draft", "not found", "HTTPStatusError"}

\* The quote the CRM returns for item_id.
FetchedQuote(item_id) ==
    IF testMode THEN [MockQuote EXCEPT !.id = item_id]
    ELSE [id |-> QuoteIdOf(item_id), client_id |-> ClientOf(QuoteIdOf(item_id)),
          cost |-> CostOf(QuoteIdOf(item_id))]

\* ------------------------------------------ POST /webhook/jobber, 542-642
\* From the return of client.get_quote to the response.
WebhookQuoteFetched(t) ==
    /\ tasks[t].pc = "get_quote"
    /\ \E outcome \in QuoteOutcomes :
        LET r == tasks[t]
            quote == FetchedQuote(r.req.item_id)
            quote_id == quote.id
            existing == get_processed_quote(processed_quotes, quote_id)
            estimated_duration == IF quote.cost > 0 THEN estimate_time(quote.cost)
                                  ELSE hours(2)
            response ==
                IF outcome = "HTTPStatusError" THEN ServerError(outcome)
                ELSE IF outcome = "not found"
                THEN Response(404, "Quote not found in Jobber")
                ELSE IF quote_id # r.req.item_id /\ existing # None
                THEN IdempotentResponse(existing)
                ELSE IF outcome # "approved" THEN Response(200, "ignored")
                ELSE IF estimated_duration = -1 THEN Response(400, "Invalid quote cost")
                ELSE Accepted
            fetched == IF outcome \in {"HTTPStatusError", "not found"} THEN NoValue
                       ELSE quote_id
        IN  /\ reply' = Reply("webhook", "fetched", r.req, fetched,
                              IF fetched = NoValue THEN NoValue ELSE outcome,
                              response)
            /\ tasks' = [tasks EXCEPT ![t] =
                    IF response = Accepted
                    THEN [r EXCEPT !.pc = "queued", !.req = None, !.resp = response,
                                   !.quote_id = quote_id, !.client_id = quote.client_id,
                                   !.cost = quote.cost]
                    ELSE Finish(r)]
    /\ UNCHANGED <<env, calander, processed_quotes, BOOK_LOCK>>

\* --------------------------------- process_webhook_background, 344-354
\* The task starts after the response was sent and re-checks the ledger.
BackgroundStart(t) ==
    /\ tasks[t].pc = "queued"
    /\ tasks' = [tasks EXCEPT ![t] =
            IF get_processed_quote(processed_quotes, tasks[t].quote_id) # None
            THEN Finish(@)
            ELSE [@ EXCEPT !.pc = "lock"]]
    /\ UNCHANGED <<env, calander, processed_quotes, BOOK_LOCK, reply>>


\* ------------------------------------------------ POST /book-job, 142-252
\* What the handler does with request before it comes to the lock: the
\* response it gives, or None when it goes on to book.
book_job_check(request, ledger) ==
    LET mock == request.body = "empty" /\ testMode
        quote_id == IF mock THEN MockQuote.id ELSE request.id
        status == IF mock THEN "APPROVED" ELSE request.quoteStatus
        cost == IF mock THEN MockQuote.cost ELSE request.cost
        existing == get_processed_quote(ledger, quote_id)
        estimated_duration == IF cost > 0 THEN estimate_time(cost) ELSE hours(2)
    IN  IF request.body # "json" /\ ~mock
        THEN Response(400, "Invalid payload")
        ELSE IF request.body = "json" /\ quote_id = NoValue
        THEN Response(400, "Missing Quote ID")
        ELSE IF request.body = "json" /\ status = NoValue
        THEN Response(400, "Missing Quote Status")
        ELSE IF request.body = "json" /\ ~request.has_cost
        THEN Response(400, "Missing Cost")
        ELSE IF request.body = "json" /\ existing # None
        THEN IdempotentResponse(existing)
        ELSE IF ~get_access_token /\ ~testMode
        THEN Response(401, "Not authorized")
        ELSE IF status # "APPROVED"
        THEN Response(200, "Ignored - Not an approved quote")
        ELSE IF estimated_duration = -1
        THEN Response(400, "Invalid quote cost")
        ELSE None

BookJobReceive(t) ==
    /\ Arrives(t)
    /\ \E request \in BookJobRequests :
        LET response == book_job_check(request, processed_quotes)
            mock == request.body = "empty" /\ testMode
        IN  IF response # None
            THEN /\ reply' = Reply("bookjob", "receive", request, NoValue, NoValue, response)
                 /\ UNCHANGED tasks
            ELSE /\ tasks' = [tasks EXCEPT ![t] =
                        [@ EXCEPT !.kind = "bookjob", !.pc = "lock",
                           !.quote_id = IF mock THEN MockQuote.id ELSE request.id,
                           !.client_id = IF mock THEN MockQuote.client_id
                                         ELSE ClientOf(request.id),
                           !.cost = IF mock THEN MockQuote.cost ELSE request.cost]]
                 /\ UNCHANGED reply
    /\ UNCHANGED <<env, calander, processed_quotes, BOOK_LOCK>>

BookLockAvailable_unlocked == TRUE

\* asyncio.Lock: acquire() returns only while no task holds the lock.
BookLockAvailable == BOOK_LOCK = NoTask

\* ------------------------------ async with BOOK_LOCK, 252-267 and 354-365
\* The task enters the critical section and reads the schedule.  The source
\* awaits nothing between entering and leaving the section; the section is
\* two steps here (enter and read, then place and leave), so other tasks may
\* run in between and the exclusion rests on BOOK_LOCK alone.
AcquireLock(t) ==
    /\ tasks[t].pc = "lock"
    /\ BookLockAvailable
    /\ BOOK_LOCK' = t
    /\ tasks' = [tasks EXCEPT ![t] = [@ EXCEPT !.pc = "book",
                                               !.visits = get_visits(calander, TRUE)]]
    /\ UNCHANGED <<env, calander, processed_quotes, reply>>

\* webapp.py 244 and 607
Duration(cost) == IF cost > 0 THEN estimate_time(cost) ELSE hours(2)

\* ------------------------------------------------- 268-278 and 366-377
\* auto_book on the schedule read, add_visit, and the lock's release.
Book(t) ==
    /\ tasks[t].pc = "book"
    /\ LET r == tasks[t]
           job_tag == classify_job_tag(0, 0, r.cost)
       IN  \E slot \in {auto_book(r.visits, search_start(now), Duration(r.cost),
                                  profile, TRUE, FALSE)} :
             IF slot = None
             THEN /\ tasks' = [tasks EXCEPT ![t] = Finish(r)]
                  /\ reply' = IF r.kind = "bookjob"
                              THEN Reply("bookjob", "final", None, r.quote_id, NoValue,
                                         Response(400, "No available slot"))
                              ELSE None
                  /\ UNCHANGED calander
             ELSE /\ calander' = add_visit(calander, t, r.quote_id, slot.startAt,
                                           slot.endAt, r.client_id, job_tag,
                                           slot.booking_status)
                  /\ tasks' = [tasks EXCEPT ![t] =
                          [r EXCEPT !.pc = "create_job", !.visits = {}, !.slot = slot,
                                    !.added = TRUE]]
                  /\ UNCHANGED reply
    /\ BOOK_LOCK' = NoTask
    /\ UNCHANGED <<env, processed_quotes>>

LedgerRow(r) ==
    [quote_id |-> r.quote_id, client_id |-> r.client_id, job_id |-> r.job_id,
     start_at |-> r.slot.startAt, end_at |-> r.slot.endAt]

\* The body of the 200 of lines 303-315.
Scheduled(r) ==
    [code |-> 200, status |-> "approved and scheduled", idempotent |-> FALSE,
     row |-> [start_at |-> r.slot.startAt, end_at |-> r.slot.endAt,
              job_id |-> r.job_id, client_id |-> r.client_id]]

\* --------------------------------------------- /book-job, 280-296
\* The legacy create_job returns or raises; on return the quote is marked.
BookJobJobReturn(t) ==
    /\ tasks[t].pc = "create_job"
    /\ tasks[t].kind = "bookjob"
    /\ IF LegacyOutcome # "ok"
       THEN /\ tasks' = [tasks EXCEPT ![t] = Finish(@)]
            /\ reply' = Reply("bookjob", "final", None, tasks[t].quote_id, NoValue,
                              ServerError(LegacyOutcome))
            /\ UNCHANGED processed_quotes
       ELSE LET r == [tasks[t] EXCEPT !.job_id = "JQuote_" \o tasks[t].quote_id,
                                      !.job_created = TRUE]
                ins == mark_quote_processed(processed_quotes, LedgerRow(r))
            IN  /\ processed_quotes' = ins.rows
                /\ IF ins.raised = "IntegrityError"
                   THEN /\ tasks' = [tasks EXCEPT ![t] = Finish(r)]
                        /\ reply' = Reply("bookjob", "final", None, r.quote_id, NoValue,
                                          IdempotentResponse(get_processed_quote(
                                              processed_quotes, r.quote_id)))
                   ELSE /\ tasks' = [tasks EXCEPT ![t] =
                                [r EXCEPT !.pc = "notify", !.marked = TRUE]]
                        /\ UNCHANGED reply
    /\ UNCHANGED <<env, calander, BOOK_LOCK>>

\* ------------------------------ process_webhook_background, 380-387
\* client.create_job returns or raises.
BackgroundJobReturn(t) ==
    /\ tasks[t].pc = "create_job"
    /\ tasks[t].kind = "webhook"
    /\ \E outcome \in CrmOutcomes :
        tasks' = [tasks EXCEPT ![t] =
            IF outcome = "ok"
            THEN [@ EXCEPT !.pc = "create_visit", !.job_id = "J" \o ToString(t),
                           !.job_created = TRUE]
            ELSE BackgroundRaise(@, outcome)]
    /\ UNCHANGED <<env, calander, processed_quotes, BOOK_LOCK, reply>>

VisitSucceeded_swallowed(outcome) == TRUE

\* 386-399: the except block re-raises, so line 401 is reached only when
\* create_visit returned.
VisitSucceeded(outcome) == outcome = "ok"

\* ------------------------------ process_webhook_background, 387-408
\* client.create_visit returns or raises; the rollback or the ledger insert.
BackgroundVisitReturn(t) ==
    /\ tasks[t].pc = "create_visit"
    /\ \E outcome \in CrmOutcomes :
        LET r == [tasks[t] EXCEPT !.visit = IF outcome = "ok" THEN "ok" ELSE "failed"]
            ins == mark_quote_processed(processed_quotes, LedgerRow(r))
        IN  IF VisitSucceeded(outcome)
            THEN /\ processed_quotes' = ins.rows
                 /\ tasks' = [tasks EXCEPT ![t] =
                        IF ins.raised = "IntegrityError"
                        THEN Finish(r)
                        ELSE [r EXCEPT !.pc = "notify", !.marked = TRUE]]
                 /\ UNCHANGED calander
            ELSE /\ calander' = remove_visit_by_name(calander, r.client_id)
                 /\ tasks' = [tasks EXCEPT ![t] = BackgroundRaise(r, outcome)]
                 /\ UNCHANGED processed_quotes
    /\ UNCHANGED <<env, BOOK_LOCK, reply>>

\* ------------------------------------------- 298-315 and 410-415
\* notify_team and then notify_client return or raise; neither touches the
\* tables, so the two awaits are one step.
NotifyReturn(t) ==
    /\ tasks[t].pc = "notify"
    /\ IF tasks[t].kind = "bookjob"
       THEN /\ tasks' = [tasks EXCEPT ![t] = Finish(@)]
            /\ reply' = Reply("bookjob", "final", None, tasks[t].quote_id, NoValue,
                              IF LegacyOutcome = "ok" THEN Scheduled(tasks[t])
                              ELSE ServerError(LegacyOutcome))
       ELSE /\ tasks' = [tasks EXCEPT ![t] =
                    IF LegacyOutcome = "ok" THEN Finish(@)
                    ELSE BackgroundRaise(@, LegacyOutcome)]
            /\ UNCHANGED reply
    /\ UNCHANGED <<env, calander, processed_quotes, BOOK_LOCK>>

\* The response leaves; until then the handler that gave it has not
\* returned and nothing else runs.
Respond ==
    /\ reply # None
    /\ reply' = None
    /\ UNCHANGED <<env, calander, processed_quotes, BOOK_LOCK, tasks>>

Next ==
    \/ /\ reply = None
       /\ \E t \in Tasks :
            \/ WebhookReceive(t)
            \/ WebhookQuoteFetched(t)
            \/ BackgroundStart(t)
            \/ BookJobReceive(t)
            \/ AcquireLock(t)
            \/ Book(t)
            \/ BookJobJobReturn(t)
            \/ BackgroundJobReturn(t)
            \/ BackgroundVisitReturn(t)
            \/ NotifyReturn(t)
    \/ Respond

Spec == Init /\ [][Next]_vars

\* ============================================ auto_book called on its own
\* A caller that books one job after another with auto_book, adding each
\* slot returned to the list of visits it passes to the next call, as the
\* rescheduler (rescheduler.py 314-321, allow_friday) and the scheduler's
\* tests do.
MaxCalls == 3

\* What estimate_time makes of quotes of 360, 720, 1440 and 2340: a small,
\* a medium and two large jobs, the last of 13 hours.
Durations == { estimate_time(cost) : cost \in {360, 720, 1440, 2340} }

\* Monday 08:00, Thursday 14:30 and a Saturday.
StartDates == { days(0) + hours(8), days(3) + hours(14) + minutes(30),
                days(5) + hours(8) }

Visit(start_at, end_at) == [startAt |-> start_at, endAt |-> end_at]

\* The visits the caller starts with.
Schedules ==
    { {},
      { Visit(days(0) + hours(13) + minutes(30), days(0) + hours(17)) },
      { Visit(days(0) + hours(8), days(0) + hours(16)) },
      { Visit(days(2) + hours(8), days(2) + hours(10)),
        Visit(days(3) + hours(9), days(3) + hours(19)) } }

CallerProfiles == {"clear", "mixed", "late", "unavailable", "storm"}

CallerInit ==
    /\ testMode = TRUE
    /\ access_token = TRUE
    /\ now = Now
    /\ profile \in CallerProfiles
    /\ calander = {}
    /\ processed_quotes = {}
    /\ BOOK_LOCK = NoTask
    /\ tasks = [t \in Tasks |-> IdleTask]
    /\ reply = None
    /\ recurring_jobs = {}
    /\ op = NoOp
    /\ refresh_token = FALSE
    /\ crm_call = NoCall
    /\ \E visits \in Schedules, start_date \in StartDates, duration \in Durations,
          allow_tentative \in BOOLEAN, allow_friday \in BOOLEAN :
            sched = [pc |-> "ready", visits |-> visits, start_date |-> start_date,
                     duration |-> duration, allow_tentative |-> allow_tentative,
                     allow_friday |-> allow_friday, slot |-> None, results |-> <<>>]

\* slot = auto_book(visits, start_date, duration, city, ...)
AutoBookCall ==
    /\ sched.pc = "ready"
    /\ sched' = [sched EXCEPT
            !.pc = "returned",
            !.slot = auto_book(sched.visits, sched.start_date, sched.duration,
                               profile, sched.allow_tentative, sched.allow_friday)]
    /\ UNCHANGED <<testMode, access_token, now, profile, calander, processed_quotes,
                   recurring_jobs, op, BOOK_LOCK, tasks, reply, refresh_token, crm_call>>

\* visits.append(slot), and the next job of the same duration is up.
AppendSlot ==
    /\ sched.pc = "returned"
    /\ sched.slot # None
    /\ Len(sched.results) + 1 < MaxCalls
    /\ sched' = [sched EXCEPT
            !.pc = "ready",
            !.visits = @ \cup {Visit(sched.slot.startAt, sched.slot.endAt)},
            !.results = Append(@, sched.slot),
            !.slot = None]
    /\ UNCHANGED <<testMode, access_token, now, profile, calander, processed_quotes,
                   recurring_jobs, op, BOOK_LOCK, tasks, reply, refresh_token, crm_call>>

CallerNext == AutoBookCall \/ AppendSlot

CallerSpec == CallerInit /\ [][CallerNext]_vars

\* ================================================ retry.py and the client
\* The kinds of exception an operation under retry_with_backoff ends with.
\* ConnectError and HTTPStatusError are httpx.HTTPError; JSONDecodeError,
\* which response.json() raises, is not.
HTTPErrors == {"ConnectError", "HTTPStatusError 401", "HTTPStatusError 503"}
Exceptions == HTTPErrors \cup {"JSONDecodeError"}

Min(a, b) == IF a < b THEN a ELSE b

retry_with_backoff_once_more(loop, outcome) ==
    IF outcome = "ok"
    THEN [loop EXCEPT !.pc = "returned", !.outcome = outcome]
    ELSE IF outcome \notin loop.exceptions
    THEN [loop EXCEPT !.pc = "raised", !.outcome = outcome, !.raised = outcome]
    ELSE IF loop.attempt <= loop.max_retries
    THEN [loop EXCEPT !.pc = "sleep", !.outcome = outcome, !.last_exception = outcome]
    ELSE [loop EXCEPT !.pc = "raised", !.outcome = outcome, !.last_exception = outcome,
                      !.raised = outcome]

\* retry.py 45-65: what the loop does with the outcome of func() in the
\* iteration numbered loop.attempt: return the result, let an exception
\* outside exceptions pass, sleep before the next iteration, or re-raise
\* in the last one.
retry_with_backoff(loop, outcome) ==
    IF outcome = "ok"
    THEN [loop EXCEPT !.pc = "returned", !.outcome = outcome]
    ELSE IF outcome \notin loop.exceptions
    THEN [loop EXCEPT !.pc = "raised", !.outcome = outcome, !.raised = outcome]
    ELSE IF loop.attempt < loop.max_retries
    THEN [loop EXCEPT !.pc = "sleep", !.outcome = outcome, !.last_exception = outcome]
    ELSE [loop EXCEPT !.pc = "raised", !.outcome = outcome, !.last_exception = outcome,
                      !.raised = outcome]

\* ---------------------------------- retry_with_backoff on any operation
MaxRetries == 3

RetryInit ==
    /\ testMode = FALSE
    /\ access_token = TRUE
    /\ now = Now
    /\ profile = "storm"
    /\ calander = {}
    /\ processed_quotes = {}
    /\ BOOK_LOCK = NoTask
    /\ tasks = [t \in Tasks |-> IdleTask]
    /\ reply = None
    /\ recurring_jobs = {}
    /\ op = NoOp
    /\ sched = NoCaller
    /\ refresh_token = FALSE
    /\ \E max_retries \in 0..MaxRetries, initial_delay \in {1, 2, 5}, max_delay \in {3, 60},
          exponential_base \in {2, 3}, exceptions \in {HTTPErrors, Exceptions} :
            crm_call = [NoCall EXCEPT !.pc = "attempt", !.func = "func",
                                      !.max_retries = max_retries,
                                      !.initial_delay = initial_delay,
                                      !.delay = initial_delay,
                                      !.max_delay = max_delay,
                                      !.exponential_base = exponential_base,
                                      !.exceptions = exceptions]

\* retry.py 45-50: func() is invoked and returns or raises.
FuncCall ==
    /\ crm_call.pc = "attempt"
    /\ crm_call.func = "func"
    /\ \E outcome \in {"ok"} \cup Exceptions :
          crm_call' = retry_with_backoff(
                          [crm_call EXCEPT !.invocations = @ + 1], outcome)
    /\ UNCHANGED <<testMode, access_token, now, profile, calander, processed_quotes,
                   recurring_jobs, op, BOOK_LOCK, tasks, reply, sched, refresh_token>>

\* retry.py 63-64: asyncio.sleep(delay) returns; the delay is multiplied by
\* exponential_base up to max_delay and the next iteration starts.  Delays
\* and the base are whole numbers here.
SleepReturn ==
    /\ crm_call.pc = "sleep"
    /\ crm_call' = [crm_call EXCEPT !.pc = "attempt", !.attempt = @ + 1,
                                    !.delay = Min(@ * crm_call.exponential_base,
                                                  crm_call.max_delay)]
    /\ UNCHANGED <<testMode, access_token, now, profile, calander, processed_quotes,
                   recurring_jobs, op, BOOK_LOCK, tasks, reply, sched, refresh_token>>

RetryNext == FuncCall \/ SleepReturn

RetrySpec == RetryInit /\ [][RetryNext]_vars

\* -------------------------------------- JobberClient._execute_query
\* One GraphQL call outside TEST_MODE: _make_request under
\* retry_with_backoff(max_retries=3, initial_delay=1.0, max_delay=30.0,
\* exceptions=(httpx.HTTPError, httpx.HTTPStatusError)).
ClientInit ==
    /\ testMode = FALSE
    /\ access_token \in BOOLEAN
    /\ now = Now
    /\ profile = "storm"
    /\ calander = {}
    /\ processed_quotes = {}
    /\ BOOK_LOCK = NoTask
    /\ tasks = [t \in Tasks |-> IdleTask]
    /\ reply = None
    /\ recurring_jobs = {}
    /\ op = NoOp
    /\ sched = NoCaller
    /\ refresh_token \in BOOLEAN
    /\ crm_call = [NoCall EXCEPT !.pc = "attempt", !.func = "_make_request",
                                 !.max_retries = 3, !.initial_delay = 1,
                                 !.delay = 1, !.max_delay = 30,
                                 !.exceptions = HTTPErrors]

\* What the GraphQL endpoint does with a POST: a status, a body that is no
\* JSON under status 200, or no answer at all.
PostOutcomes == {"200", "401", "503", "garbage", "ConnectError"}

\* jobber_client.py 52-57 and 81-90: how _make_request ends on a POST that
\* was not answered 401, or was answered 401 with no refresh left to try.
RequestOutcome(answer) ==
    CASE answer = "200" -> "ok"
      [] answer = "401" -> "HTTPStatusError 401"
      [] answer = "503" -> "HTTPStatusError 503"
      [] answer = "garbage" -> "JSONDecodeError"
      [] OTHER -> "ConnectError"

\* jobber_client.py 44-61: _make_request is invoked and posts the query.
MakeRequestPost ==
    /\ crm_call.pc = "attempt"
    /\ crm_call.func = "_make_request"
    /\ \E answer \in PostOutcomes :
          LET call == [crm_call EXCEPT !.invocations = @ + 1, !.posts = @ + 1,
                                       !.only_401 = @ /\ answer = "401"]
          IN  crm_call' = IF answer = "401"
                          THEN [call EXCEPT !.pc = "refresh"]
                          ELSE retry_with_backoff(call, RequestOutcome(answer))
    /\ UNCHANGED <<testMode, access_token, now, profile, calander, processed_quotes,
                   recurring_jobs, op, BOOK_LOCK, tasks, reply, sched, refresh_token>>

\* What the token endpoint does with the refresh request.
TokenOutcomes == {"ok", "non-200", "no access token", "raised"}

\* jobber_client.py 104-177: the tokens stored afterwards and whether a new
\* access token is returned.
_refresh_token(stored_access, stored_refresh, answer) ==
    IF ~stored_refresh
    THEN [new_token |-> FALSE, access |-> stored_access, refresh |-> stored_refresh,
          result |-> "no refresh token"]
    ELSE CASE answer = "ok" ->
                [new_token |-> TRUE, access |-> TRUE, refresh |-> TRUE, result |-> "ok"]
           [] answer = "no access token" ->
                [new_token |-> FALSE, access |-> stored_access,
                 refresh |-> stored_refresh, result |-> answer]
           [] OTHER ->
                [new_token |-> FALSE, access |-> FALSE, refresh |-> FALSE,
                 result |-> answer]

\* jobber_client.py 61-79: after a 401, _refresh_token returns; without a
\* new token raise_for_status() raises the 401.
RefreshReturn ==
    /\ crm_call.pc = "refresh"
    /\ \E answer \in TokenOutcomes :
          LET refreshed == _refresh_token(access_token, refresh_token, answer)
              call == [crm_call EXCEPT !.refreshes = @ + 1,
                                       !.refresh = refreshed.result]
          IN  /\ access_token' = refreshed.access
              /\ refresh_token' = refreshed.refresh
              /\ crm_call' = IF refreshed.new_token
                              THEN [call EXCEPT !.pc = "resend", !.token = "new"]
                              ELSE retry_with_backoff(call, "HTTPStatusError 401")
    /\ UNCHANGED <<testMode, now, profile, calander, processed_quotes,
                   recurring_jobs, op, BOOK_LOCK, tasks, reply, sched>>

\* jobber_client.py 69-90: the request sent again with the new token is
\* answered.
ResendReturn ==
    /\ crm_call.pc = "resend"
    /\ \E answer \in PostOutcomes :
          crm_call' = retry_with_backoff(
                          [crm_call EXCEPT !.posts = @ + 1,
                                           !.only_401 = @ /\ answer = "401"],
                          RequestOutcome(answer))
    /\ UNCHANGED <<testMode, access_token, now, profile, calander, processed_quotes,
                   recurring_jobs, op, BOOK_LOCK, tasks, reply, sched, refresh_token>>

ClientNext == MakeRequestPost \/ RefreshReturn \/ ResendReturn \/ SleepReturn

ClientSpec == ClientInit /\ [][ClientNext]_vars

\* ===================================================== recurring jobs
\* A date is a day number, day 0 a Monday; an "HH:MM" string is the pair
\* <<hour, minute>> that map(int, start_time.split(':')) makes of it;
\* duration_hours is a whole number of hours.
MaxOps == 3

\* A number or a date the JSON payload leaves out, None in the code; a
\* string left out is NoValue and a time left out the empty pair.
Null == -1

\* recurring_jobs.py 177-189 with the clock on Wednesday 6 August 2025:
\* the first Monday of the month is day 0 and 31 August day 27.
FirstMondayOfMonth == 0
EndOfAugust == 27

\* db.py 48-56: id INTEGER PRIMARY KEY AUTOINCREMENT of the calander table;
\* rows are read back in the order of their ids.
NextVisitId(rows) ==
    IF rows = {} THEN 1
    ELSE (CHOOSE r \in rows : \A q \in rows : q.by <= r.by).by + 1

\* db.py 366-398.  The INSERT raises sqlite3.IntegrityError on a NULL in a
\* NOT NULL column and on UNIQUE(client_id, day_of_week, start_time)
\* (84-96); is_active defaults to 1.
create_recurring_job(rows, client_id, day_of_week, start_time, duration_hours, start_date, end_date, job_tag) ==
    LET id == IF rows = {} THEN 1
              ELSE (CHOOSE r \in rows : \A q \in rows : q.id <= r.id).id + 1
        integrity_error ==
            \/ client_id = NoValue \/ day_of_week = Null \/ start_time = <<>>
            \/ duration_hours = Null \/ start_date = Null \/ end_date = Null
            \/ \E r \in rows : /\ r.client_id = client_id
                               /\ r.day_of_week = day_of_week
                               /\ r.start_time = start_time
    IN  IF integrity_error
        THEN [raised |-> TRUE, rows |-> rows, lastrowid |-> 0]
        ELSE [raised |-> FALSE,
              rows |-> rows \cup
                  {[id |-> id, client_id |-> client_id,
                    job_tag |-> IF job_tag \in {"commercial", "residential"}
                                THEN job_tag ELSE "residential",
                    day_of_week |-> day_of_week, start_time |-> start_time,
                    duration_hours |-> duration_hours,
                    start_date |-> start_date, end_date |-> end_date,
                    is_active |-> TRUE]},
              lastrowid |-> id]

\* db.py 401-460
get_recurring_jobs(rows, client_id, active_only) ==
    { r \in rows : /\ client_id # NoValue => r.client_id = client_id
                   /\ active_only => r.is_active }

\* db.py 463-483
deactivate_recurring_job(rows, recurring_job_id) ==
    [rows |-> { IF r.id = recurring_job_id THEN [r EXCEPT !.is_active = FALSE]
                ELSE r : r \in rows },
     rowcount |-> Cardinality({ r \in rows : r.id = recurring_job_id })]

EmptyResult(error) ==
    [error |-> error, recurring_job_id |-> 0, total_dates |-> 0, booked |-> 0,
     skipped_conflicts |-> 0, skipped_weather |-> 0, bookings |-> <<>>]

\* recurring_jobs.py 88-154: the body of the loop for current_date.  st
\* holds the calander, existing_visits and result.
GenerateDate_any_weekday(current_date, recurring_job, weather, check_weather, skip_conflicts, st) ==
    LET hour == recurring_job.start_time[1]
        minute == recurring_job.start_time[2]
        job_datetime == days(current_date) + hours(hour) + minutes(minute)
        duration == hours(recurring_job.duration_hours)
        end_datetime == job_datetime + duration
        counted == [st EXCEPT !.result.total_dates = @ + 1]
        weather_check == check_weather_with_confidence(weather, job_datetime)
        booking_status == IF check_weather /\ weather_check.confidence = "low"
                          THEN "tentative" ELSE "confirmed"
    IN  IF ~is_workday(job_datetime, FALSE) THEN counted
        ELSE IF Hour(job_datetime) < WORK_START \/ Hour(end_datetime) > WORK_END
             THEN counted
        ELSE IF skip_conflicts
                /\ ~check_availability(job_datetime, duration, st.existing_visits)
             THEN [counted EXCEPT !.result.skipped_conflicts = @ + 1]
        ELSE IF check_weather /\ ~weather_check.suitable
             THEN [counted EXCEPT !.result.skipped_weather = @ + 1]
        ELSE [counted EXCEPT
                !.rows = add_visit(@, NextVisitId(@), NoValue, job_datetime,
                                   end_datetime, recurring_job.client_id,
                                   recurring_job.job_tag, booking_status),
                !.result.booked = @ + 1,
                !.result.bookings =
                    Append(@, [date |-> current_date, start_at |-> job_datetime,
                               end_at |-> end_datetime,
                               booking_status |-> booking_status]),
                !.existing_visits =
                    IF skip_conflicts
                    THEN @ \cup {[startAt |-> job_datetime, endAt |-> end_datetime,
                                  client_id |-> recurring_job.client_id]}
                    ELSE @]

GenerateDate(current_date, recurring_job, weather, check_weather, skip_conflicts, st) ==
    LET hour == recurring_job.start_time[1]
        minute == recurring_job.start_time[2]
        job_datetime == days(current_date) + hours(hour) + minutes(minute)
        duration == hours(recurring_job.duration_hours)
        end_datetime == job_datetime + duration
        counted == [st EXCEPT !.result.total_dates = @ + 1]
        weather_check == check_weather_with_confidence(weather, job_datetime)
        booking_status == IF check_weather /\ weather_check.confidence = "low"
                          THEN "tentative" ELSE "confirmed"
    IN  IF current_date % 7 # recurring_job.day_of_week THEN st
        ELSE IF ~is_workday(job_datetime, FALSE) THEN counted
        ELSE IF Hour(job_datetime) < WORK_START \/ Hour(end_datetime) > WORK_END
             THEN counted
        ELSE IF skip_conflicts
                /\ ~check_availability(job_datetime, duration, st.existing_visits)
             THEN [counted EXCEPT !.result.skipped_conflicts = @ + 1]
        ELSE IF check_weather /\ ~weather_check.suitable
             THEN [counted EXCEPT !.result.skipped_weather = @ + 1]
        ELSE [counted EXCEPT
                !.rows = add_visit(@, NextVisitId(@), NoValue, job_datetime,
                                   end_datetime, recurring_job.client_id,
                                   recurring_job.job_tag, booking_status),
                !.result.booked = @ + 1,
                !.result.bookings =
                    Append(@, [date |-> current_date, start_at |-> job_datetime,
                               end_at |-> end_datetime,
                               booking_status |-> booking_status]),
                !.existing_visits =
                    IF skip_conflicts
                    THEN @ \cup {[startAt |-> job_datetime, endAt |-> end_datetime,
                                  client_id |-> recurring_job.client_id]}
                    ELSE @]

\* recurring_jobs.py 86-156: while current_date <= end_date
RECURSIVE GenerateDates(_, _, _, _, _, _)
GenerateDates(current_date, recurring_job, weather, check_weather, skip_conflicts, st) ==
    IF current_date > recurring_job.end_date THEN st
    ELSE LET st2 == GenerateDate(current_date, recurring_job, weather,
                                 check_weather, skip_conflicts, st)
         IN  IF st2.result.total_dates >= 0
             THEN GenerateDates(current_date + 1, recurring_job, weather,
                                check_weather, skip_conflicts, st2)
             ELSE st2

\* recurring_jobs.py 13-156
generate_bookings_from_recurring_job_any(templates, rows, recurring_job_id, weather, check_weather, skip_conflicts) ==
    LET all_recurring == get_recurring_jobs(templates, NoValue, FALSE)
    IN  IF ~\E rj \in all_recurring : rj.id = recurring_job_id
        THEN [rows |-> rows, result |-> EmptyResult("not found")]
        ELSE
        LET recurring_job == CHOOSE rj \in all_recurring : rj.id = recurring_job_id
            existing_visits == IF skip_conflicts THEN get_visits(rows, FALSE) ELSE {}
            st == GenerateDates(recurring_job.start_date, recurring_job, weather,
                                check_weather, skip_conflicts,
                                [rows |-> rows, existing_visits |-> existing_visits,
                                 result |-> [EmptyResult("") EXCEPT
                                                !.recurring_job_id = recurring_job_id]])
        IN  [rows |-> st.rows, result |-> st.result]

generate_bookings_from_recurring_job(templates, rows, recurring_job_id, weather, check_weather, skip_conflicts) ==
    LET all_recurring == get_recurring_jobs(templates, NoValue, FALSE)
    IN  IF ~\E rj \in all_recurring : rj.id = recurring_job_id
        THEN [rows |-> rows, result |-> EmptyResult("not found")]
        ELSE
        LET recurring_job == CHOOSE rj \in all_recurring : rj.id = recurring_job_id
            existing_visits == IF skip_conflicts THEN get_visits(rows, FALSE) ELSE {}
            st == GenerateDates(recurring_job.start_date, recurring_job, weather,
                                check_weather, skip_conflicts,
                                [rows |-> rows, existing_visits |-> existing_visits,
                                 result |-> [EmptyResult("") EXCEPT
                                                !.recurring_job_id = recurring_job_id]])
        IN  IF ~recurring_job.is_active
            THEN [rows |-> rows, result |-> EmptyResult("not active")]
            ELSE [rows |-> st.rows, result |-> st.result]

\* recurring_jobs.py 159-199
book_entire_summer(templates, rows, weather, client_id, day_of_week, start_time, duration_hours, job_tag, start_date, end_date) ==
    LET from == IF start_date = Null THEN FirstMondayOfMonth ELSE start_date
        to == IF end_date = Null THEN EndOfAugust ELSE end_date
        created == create_recurring_job(templates, client_id, day_of_week, start_time,
                                        duration_hours, from, to, job_tag)
        generated == generate_bookings_from_recurring_job(
                        created.rows, rows, created.lastrowid, weather, TRUE, TRUE)
    IN  IF created.raised
        THEN [raised |-> TRUE, templates |-> templates, rows |-> rows, result |-> None]
        ELSE [raised |-> FALSE, templates |-> created.rows, rows |-> generated.rows,
              result |-> generated.result]

\* ------------------------------------ webapp.py: the recurring-jobs API
BaseRecurring ==
    [client_id |-> "C1", day_of_week |-> 0, start_time |-> <<10, 0>>,
     duration_hours |-> 2, start_date |-> 0, end_date |-> 14,
     job_tag |-> "residential", book_now |-> TRUE]

\* The payloads sent to POST /recurring-jobs and /recurring-jobs/book-summer.
RecurringRequests ==
    { BaseRecurring,
      [BaseRecurring EXCEPT !.book_now = FALSE],
      [BaseRecurring EXCEPT !.client_id = NoValue],
      [BaseRecurring EXCEPT !.day_of_week = Null],
      [BaseRecurring EXCEPT !.day_of_week = 4],
      [BaseRecurring EXCEPT !.start_time = <<>>],
      [BaseRecurring EXCEPT !.duration_hours = Null],
      [BaseRecurring EXCEPT !.client_id = "C2", !.end_date = 28],
      [BaseRecurring EXCEPT !.client_id = "C2", !.day_of_week = 3,
                            !.start_time = <<7, 0>>],
      [BaseRecurring EXCEPT !.start_time = <<19, 30>>, !.duration_hours = 1],
      [BaseRecurring EXCEPT !.start_time = <<11, 0>>, !.start_date = Null,
                            !.end_date = Null] }

\* A template written with create_recurring_job itself, as
\* test_recurring_jobs.py 302-314 writes one for Fridays.
DirectTemplates ==
    { [BaseRecurring EXCEPT !.client_id = "C_FRIDAY", !.day_of_week = 4,
                            !.start_date = 4, !.end_date = 25] }

RecurringProfiles == {"clear", "late", "storm", "unavailable"}

\* webapp.py 802-813 and 920-931.  raise HTTPException(status_code=400)
\* stands inside the try whose except Exception (838-839, 940-941) answers
\* 500: HTTPException is an Exception.
MissingField(data) ==
    \/ data.client_id = NoValue
    \/ data.day_of_week = Null
    \/ data.start_time = <<>>
    \/ data.duration_hours = Null
    \/ data.day_of_week \notin {0, 1, 2, 3}

EndpointReply(code, templates, rows, id, result) ==
    [code |-> code, templates |-> templates, rows |-> rows, id |-> id,
     result |-> result]

\* webapp.py 775-839
create_recurring_job_endpoint(templates, rows, weather, data) ==
    LET created == create_recurring_job(templates, data.client_id, data.day_of_week,
                                        data.start_time, data.duration_hours,
                                        data.start_date, data.end_date, data.job_tag)
        booking_result == generate_bookings_from_recurring_job(
                            created.rows, rows, created.lastrowid, weather, TRUE, TRUE)
    IN  IF MissingField(data) THEN EndpointReply(500, templates, rows, 0, None)
        ELSE IF created.raised THEN EndpointReply(500, templates, rows, 0, None)
        ELSE IF data.book_now
             THEN EndpointReply(200, created.rows, booking_result.rows,
                                created.lastrowid, booking_result.result)
             ELSE EndpointReply(200, created.rows, rows, created.lastrowid, None)

\* webapp.py 895-941
book_entire_summer_endpoint(templates, rows, weather, data) ==
    LET booked == book_entire_summer(templates, rows, weather, data.client_id,
                                     data.day_of_week, data.start_time,
                                     data.duration_hours, data.job_tag,
                                     data.start_date, data.end_date)
    IN  IF MissingField(data) THEN EndpointReply(500, templates, rows, 0, None)
        ELSE IF booked.raised THEN EndpointReply(500, templates, rows, 0, None)
        ELSE EndpointReply(200, booked.templates, booked.rows, 0, booked.result)

RecurringInit ==
    /\ testMode = TRUE
    /\ access_token = TRUE
    /\ now = Now
    /\ profile \in RecurringProfiles
    /\ calander = {}
    /\ processed_quotes = {}
    /\ BOOK_LOCK = NoTask
    /\ tasks = [t \in Tasks |-> IdleTask]
    /\ reply = None
    /\ sched = NoCaller
    /\ refresh_token = FALSE
    /\ crm_call = NoCall
    /\ recurring_jobs = {}
    /\ op = NoOp

Called(name, req, id, code, result) ==
    [name |-> name, seq |-> op.seq + 1, req |-> req, id |-> id, code |-> code,
     result |-> result]

RecurringFrame ==
    UNCHANGED <<testMode, access_token, now, profile, processed_quotes, BOOK_LOCK,
                tasks, reply, sched, refresh_token, crm_call>>

\* POST /recurring-jobs
CreateRecurringJobEndpoint ==
    /\ op.seq < MaxOps
    /\ \E data \in RecurringRequests :
          LET answer == create_recurring_job_endpoint(recurring_jobs, calander,
                                                      profile, data)
          IN  /\ recurring_jobs' = answer.templates
              /\ calander' = answer.rows
              /\ op' = Called("create_recurring_job_endpoint", data, answer.id,
                              answer.code, answer.result)
    /\ RecurringFrame

\* POST /recurring-jobs/book-summer
BookEntireSummerEndpoint ==
    /\ op.seq < MaxOps
    /\ \E data \in RecurringRequests :
          LET answer == book_entire_summer_endpoint(recurring_jobs, calander,
                                                    profile, data)
          IN  /\ recurring_jobs' = answer.templates
              /\ calander' = answer.rows
              /\ op' = Called("book_entire_summer_endpoint", data, answer.id,
                              answer.code, answer.result)
    /\ RecurringFrame

\* create_recurring_job called on its own
CreateRecurringJob ==
    /\ op.seq < MaxOps
    /\ \E data \in DirectTemplates :
          LET created == create_recurring_job(recurring_jobs, data.client_id,
                              data.day_of_week, data.start_time, data.duration_hours,
                              data.start_date, data.end_date, data.job_tag)
          IN  /\ ~created.raised
              /\ recurring_jobs' = created.rows
              /\ op' = Called("create_recurring_job", data, created.lastrowid, 0, None)
    /\ UNCHANGED calander
    /\ RecurringFrame

\* POST /recurring-jobs/{id}/generate-bookings, webapp.py 860-872
GenerateBookingsEndpoint ==
    /\ op.seq < MaxOps
    /\ \E recurring_job_id \in 1..MaxOps :
          LET generated == generate_bookings_from_recurring_job(
                              recurring_jobs, calander, recurring_job_id, profile,
                              TRUE, TRUE)
          IN  /\ calander' = generated.rows
              /\ op' = Called("generate_bookings_endpoint", None, recurring_job_id,
                              200, generated.result)
    /\ UNCHANGED recurring_jobs
    /\ RecurringFrame

\* POST /recurring-jobs/{id}/deactivate, webapp.py 875-892
DeactivateRecurringJobEndpoint ==
    /\ op.seq < MaxOps
    /\ \E recurring_job_id \in 1..MaxOps :
          LET updated == deactivate_recurring_job(recurring_jobs, recurring_job_id)
          IN  /\ recurring_jobs' = updated.rows
              /\ op' = Called("deactivate_recurring_job_endpoint", None,
                              recurring_job_id,
                              IF updated.rowcount = 0 THEN 404 ELSE 200, None)
    /\ UNCHANGED calander
    /\ RecurringFrame

RecurringNext ==
    \/ CreateRecurringJobEndpoint
    \/ BookEntireSummerEndpoint
    \/ CreateRecurringJob
    \/ GenerateBookingsEndpoint
    \/ DeactivateRecurringJobEndpoint

RecurringSpec == RecurringInit /\ [][RecurringNext]_vars

\* ======================================================= rescheduler.py
\* The bookings here were written by the booking paths: their ISO strings
\* carry the UTC offset of tz_now(), so the datetimes parsed from them
\* compare with tz_now() and with the times auto_book returns.  Rows are
\* read in the order of their ids.
RECURSIVE InIdOrder(_)
InIdOrder(rows) ==
    IF rows = {} THEN <<>>
    ELSE LET first == CHOOSE r \in rows : \A q \in rows : r.by <= q.by
         IN  <<first>> \o InIdOrder(rows \ {first})

\* db.py 221-245
get_tentative_bookings(rows) ==
    InIdOrder({ r \in rows : r.booking_status = "tentative" })

\* db.py 193-218 with the status set for every booking of the client
update_booking_status_of_client(rows, client_id, start_at, new_status) ==
    [raised |-> "",
     rows |-> { IF r.client_id = client_id
                THEN [r EXCEPT !.booking_status = new_status] ELSE r : r \in rows },
     rowcount |-> Cardinality({ r \in rows : r.client_id = client_id })]

\* db.py 193-218: the rows afterwards, the exception raised if any, and
\* cursor.rowcount.
update_booking_status(rows, client_id, start_at, new_status) ==
    IF new_status \notin {"confirmed", "tentative"}
    THEN [raised |-> "ValueError", rows |-> rows, rowcount |-> 0]
    ELSE [raised |-> "",
          rows |-> { IF r.client_id = client_id /\ r.startAt = start_at
                     THEN [r EXCEPT !.booking_status = new_status] ELSE r : r \in rows },
          rowcount |-> Cardinality({ r \in rows : /\ r.client_id = client_id
                                                  /\ r.startAt = start_at })]

\* weather.py 55-88: with the forecast unavailable the answer is True,
\* otherwise False when an entry of the window is severe or has pop > 0.5,
\* the entries for which check_weather_with_confidence answers "bad".
check_weather(weather, date) == check_weather_with_confidence(weather, date).suitable

\* rescheduler.py 152-172
_is_slot_available(start_time, end_time, existing_visits) ==
    \A visit \in existing_visits :
        LET visit_start == visit.startAt - minutes(grace_period)
            visit_end == visit.endAt + minutes(grace_period)
        IN  end_time <= visit_start \/ start_time >= visit_end

\* ------------------------------------------ recheck_tentative_bookings
\* rescheduler.py 286-357, the body of the loop for one booking.  st holds
\* the calander and result; before and after in an entry of details are the
\* calander before and after the entry's booking was handled, which the
\* code does not record.  new_slot is what auto_book(all_visits, tz_now(),
\* duration, ..., allow_tentative=True, allow_friday=True) of 314-322
\* returns for the booking: all_visits is read once, before the loop (281).
RecheckBooking(booking, new_slot, clock, weather, st) ==
    LET client_id == booking.client_id
        weather_check == check_weather_with_confidence(weather, booking.startAt)
        removed == remove_visit_by_name(st.rows, client_id)
        upgraded == update_booking_status(st.rows, client_id, booking.startAt,
                                          "confirmed").rows
        reshuffled == add_visit(removed, NextVisitId(removed), NoValue,
                                new_slot.startAt, new_slot.endAt, client_id,
                                booking.job_tag, new_slot.booking_status)
        readded == add_visit(removed, NextVisitId(removed), NoValue,
                             booking.startAt, booking.endAt, client_id,
                             booking.job_tag, "tentative")
        detail == [client_id |-> client_id, action |-> "", startAt |-> booking.startAt,
                   before |-> st.rows, after |-> st.rows]
    IN  IF booking.startAt <= clock THEN st
        ELSE IF weather_check.confidence \in {"high", "medium"}
        THEN [rows |-> upgraded,
              result |-> [st.result EXCEPT
                  !.upgraded_to_confirmed = @ + 1,
                  !.details = Append(@, [detail EXCEPT !.action = "upgraded_to_confirmed",
                                                       !.after = upgraded])]]
        ELSE IF weather_check.confidence = "bad"
        THEN IF new_slot # None
             THEN [rows |-> reshuffled,
                   result |-> [st.result EXCEPT
                       !.reshuffled = @ + 1,
                       !.details = Append(@, [detail EXCEPT !.action = "reshuffled",
                                                            !.after = reshuffled])]]
             ELSE [rows |-> readded,
                   result |-> [st.result EXCEPT
                       !.no_change = @ + 1,
                       !.details = Append(@, [detail EXCEPT !.action = "no_change",
                                                            !.after = readded])]]
        ELSE [st EXCEPT !.result.no_change = @ + 1]

RECURSIVE RecheckBookings(_, _, _, _, _, _)
RecheckBookings(tentative_bookings, i, new_slots, clock, weather, st) ==
    IF i > Len(tentative_bookings) THEN st
    ELSE LET st2 == RecheckBooking(tentative_bookings[i], new_slots[i], clock,
                                   weather, st)
         IN  IF st2.result.checked >= 0
             THEN RecheckBookings(tentative_bookings, i + 1, new_slots, clock,
                                  weather, st2)
             ELSE st2

\* new_slot = auto_book(all_visits, tz_now(), duration, ...,
\* allow_tentative=True, allow_friday=True) for each tentative booking:
\* all_visits is read once, before the loop, and holds the confirmed rows.
ReplacementSlots(rows, clock, weather) ==
    LET tentative_bookings == get_tentative_bookings(rows)
        all_visits == get_visits(rows, FALSE)
    IN  [i \in 1..Len(tentative_bookings) |->
            auto_book(all_visits, clock,
                      tentative_bookings[i].endAt - tentative_bookings[i].startAt,
                      weather, TRUE, TRUE)]

\* rescheduler.py 250-359
recheck_tentative_bookings(rows, clock, weather) ==
    RecheckBookings(get_tentative_bookings(rows), 1,
                    ReplacementSlots(rows, clock, weather), clock, weather,
                    [rows |-> rows,
                     result |-> [checked |-> Len(get_tentative_bookings(rows)),
                                 upgraded_to_confirmed |-> 0, reshuffled |-> 0,
                                 no_change |-> 0, details |-> <<>>]])

\* ---------------------------------------------------- compact_schedule
\* visits.sort(key=lambda x: x['startAt']), a stable sort of the rows read
\* in the order of their ids.
RECURSIVE SortedByStart(_)
SortedByStart(rows) ==
    IF rows = {} THEN <<>>
    ELSE LET first == CHOOSE r \in rows : \A q \in rows :
                          \/ r.startAt < q.startAt
                          \/ r.startAt = q.startAt /\ r.by <= q.by
         IN  <<first>> \o SortedByStart(rows \ {first})

\* rescheduler.py 387-418: the starts from 08:00 of today on, 30 minutes
\* apart and before the visit's own, to which the while loop would move
\* the visit.
EarlierSlots(visit, others, clock, weather) ==
    LET duration == visit.endAt - visit.startAt
        steps == (visit.startAt - DayStart(clock)) \div minutes(30)
    IN  { candidate \in { DayStart(clock) + minutes(30) * k : k \in 0..steps } :
            /\ candidate < visit.startAt
            /\ is_workday(candidate, FALSE)
            /\ Hour(candidate + duration) <= WORK_END
            /\ _is_slot_available(candidate, candidate + duration, others)
            /\ check_weather(weather, candidate) }

\* rescheduler.py 381-418, the body of the loop for visits[i]
CompactVisit(visits, i, clock, weather, st) ==
    LET visit == visits[i]
        others == { visits[j] : j \in (1..Len(visits)) \ {i} }
        slots == EarlierSlots(visit, others, clock, weather)
        earliest == CHOOSE s \in slots : \A q \in slots : s <= q
        removed == remove_visit_by_name(st.rows, visit.client_id)
    IN  IF slots = {} THEN st
        ELSE [rows |-> add_visit(removed, NextVisitId(removed), NoValue, earliest,
                                 earliest + (visit.endAt - visit.startAt),
                                 visit.client_id, "residential", "confirmed"),
              optimized_jobs |-> Append(st.optimized_jobs,
                                        [client_id |-> visit.client_id,
                                         old_start |-> visit.startAt,
                                         new_start |-> earliest])]

RECURSIVE CompactVisits(_, _, _, _, _)
CompactVisits(visits, i, clock, weather, st) ==
    IF i > Len(visits) THEN st
    ELSE LET st2 == CompactVisit(visits, i, clock, weather, st)
         IN  IF Len(st2.optimized_jobs) >= 0
             THEN CompactVisits(visits, i + 1, clock, weather, st2)
             ELSE st2

\* rescheduler.py 362-423.  route_optimization reports an order of the
\* visits and changes nothing.
compact_schedule(rows, clock, weather) ==
    LET visits == SortedByStart(get_visits(rows, TRUE))
        st == CompactVisits(visits, 1, clock, weather,
                            [rows |-> rows, optimized_jobs |-> <<>>])
    IN  IF visits = <<>>
        THEN [rows |-> rows,
              result |-> [message |-> "No visits to optimize", total_optimized |-> 0,
                          optimized_jobs |-> <<>>]]
        ELSE [rows |-> st.rows,
              result |-> [message |-> "", total_optimized |-> Len(st.optimized_jobs),
                          optimized_jobs |-> st.optimized_jobs]]

\* ------------------------------------- reschedule_weather_affected_jobs
\* rescheduler.py 61-91
check_weather_impact_on_schedule(visits, clock, weather) ==
    LET Affected(visit) == visit.startAt > clock /\ ~check_weather(weather, visit.startAt)
        affected == SelectSeq(visits, Affected)
    IN  [i \in 1..Len(affected) |->
            [client_id |-> affected[i].client_id,
             original_start |-> affected[i].startAt,
             original_end |-> affected[i].endAt,
             date |-> affected[i].date,
             job_tag |-> affected[i].job_tag]]

\* The forecast's entries: 40 of them, three hours apart.
ForecastTimes(clock) == { (clock \div hours(3) + k) * hours(3) : k \in 1..40 }

TypeError == [raised |-> "TypeError"]

\* weather.py 186-223.  available: the provider answers this request.
\* offset_aware: start_datetime carries a UTC offset.  forecast_time is
\* made naive by replace(tzinfo=None) (201), and forecast_time <
\* start_datetime (204) raises TypeError when start_datetime is aware.
get_next_suitable_weather_slot(available, weather, clock, start_datetime, offset_aware, duration) ==
    LET suitable == { forecast_time \in ForecastTimes(clock) :
                        /\ ~(\/ forecast_time < start_datetime
                             \/ Hour(forecast_time) < 8
                             \/ Hour(forecast_time) >= 20)
                        /\ check_weather_with_confidence(weather, forecast_time)
                              .confidence # "bad" }
        forecast_time == CHOOSE t \in suitable : \A q \in suitable : t <= q
    IN  IF ~available \/ weather = "unavailable" THEN None
        ELSE IF offset_aware THEN TypeError
        ELSE IF suitable = {} THEN None
        ELSE [start |-> forecast_time, end |-> forecast_time + duration]

\* rescheduler.py 110-147, the body of the loop for one job.  st holds the
\* calander, result and the exception raised, if any.
RescheduleJob(job, available, clock, weather, st) ==
    LET removed == remove_visit_by_name(st.rows, job.client_id)
        duration == job.original_end - job.original_start
        search_from == job.original_start + hours(1)
        new_slot == get_next_suitable_weather_slot(available, weather, clock,
                                                   search_from, TRUE, duration)
        current_visits == get_visits(removed, TRUE)
    IN  IF new_slot = TypeError
        THEN [st EXCEPT !.rows = removed, !.raised = "TypeError"]
        ELSE IF new_slot # None
                /\ _is_slot_available(new_slot.start, new_slot.end, current_visits)
        THEN [st EXCEPT
                !.rows = add_visit(removed, NextVisitId(removed), NoValue,
                                   new_slot.start, new_slot.end, job.client_id,
                                   job.job_tag, "confirmed"),
                !.result.successfully_rescheduled = @ + 1,
                !.result.rescheduled_jobs =
                    Append(@, [client_id |-> job.client_id,
                               old_start |-> job.original_start,
                               new_start |-> new_slot.start,
                               new_end |-> new_slot.end])]
        ELSE [st EXCEPT !.rows = removed,
                        !.result.failed_to_reschedule = @ + 1]

RECURSIVE RescheduleJobs(_, _, _, _, _, _)
RescheduleJobs(affected_jobs, i, answers, clock, weather, st) ==
    IF i > Len(affected_jobs) \/ st.raised # "" THEN st
    ELSE LET st2 == RescheduleJob(affected_jobs[i], answers[i], clock, weather, st)
         IN  IF st2.result.total_affected >= 0
             THEN RescheduleJobs(affected_jobs, i + 1, answers, clock, weather, st2)
             ELSE st2

\* rescheduler.py 94-149.  answers[i] tells whether the provider answers
\* the forecast request made for the i-th job.
reschedule_weather_affected_jobs(rows, affected_jobs, answers, clock, weather) ==
    RescheduleJobs(affected_jobs, 1, answers, clock, weather,
                   [rows |-> rows, raised |-> "",
                    result |-> [total_affected |-> Len(affected_jobs),
                                successfully_rescheduled |-> 0,
                                failed_to_reschedule |-> 0,
                                rescheduled_jobs |-> <<>>]])

\* What a call of reschedule_weather_affected_jobs is remembered by: its
\* result, the exception that ended it, the list it was given and the
\* calander it found.
Rescheduled(affected_jobs, before, st) ==
    [raised |-> st.raised, affected_jobs |-> affected_jobs, before |-> before,
     total_affected |-> st.result.total_affected,
     successfully_rescheduled |-> st.result.successfully_rescheduled,
     failed_to_reschedule |-> st.result.failed_to_reschedule,
     rescheduled_jobs |-> st.result.rescheduled_jobs]

\* rescheduler.py 217-247
run_daily_weather_check(rows, answers, clock, weather) ==
    LET all_visits == InIdOrder(get_visits(rows, TRUE))
        Future(visit) == visit.startAt > clock
        future_visits == SelectSeq(all_visits, Future)
        affected_jobs == check_weather_impact_on_schedule(future_visits, clock, weather)
        st == reschedule_weather_affected_jobs(rows, affected_jobs, answers, clock,
                                               weather)
    IN  IF affected_jobs = <<>>
        THEN [rows |-> rows, result |-> None]
        ELSE [rows |-> st.rows, result |-> Rescheduled(affected_jobs, rows, st)]

\* rescheduler.py 22-58, for a client with appointments
cancel_appointment(rows, client_id, answers, clock, weather) ==
    LET remaining == remove_visit_by_name(rows, client_id)
        remaining_visits == InIdOrder(get_visits(remaining, TRUE))
        weather_affected == check_weather_impact_on_schedule(remaining_visits, clock,
                                                             weather)
        st == reschedule_weather_affected_jobs(remaining, weather_affected, answers,
                                               clock, weather)
    IN  IF weather_affected = <<>>
        THEN [rows |-> remaining, result |-> None]
        ELSE [rows |-> st.rows, result |-> Rescheduled(weather_affected, remaining, st)]

\* ------------------------------------------------ the rescheduler's API
Booking(id, client_id, start_at, end_at, job_tag, booking_status) ==
    [by |-> id, quote |-> NoValue, date |-> Day(start_at), client_id |-> client_id,
     startAt |-> start_at, endAt |-> end_at, job_tag |-> job_tag,
     booking_status |-> booking_status]

\* Bookings after Wednesday 10:15: a tentative one of C1 on Thursday, one
\* of C2 on Thursday afternoon, C1's next on Monday, a tentative one of C3
\* on Tuesday, a second tentative one of C1 on the Wednesday after.
ThursdayC1 ==
    Booking(1, "C1", days(3) + hours(10), days(3) + hours(12), "residential", "tentative")
ThursdayC2 ==
    Booking(2, "C2", days(3) + hours(13), days(3) + hours(15), "commercial", "confirmed")
MondayC1 ==
    Booking(3, "C1", days(7) + hours(10), days(7) + hours(12), "residential", "confirmed")
TuesdayC3 ==
    Booking(4, "C3", days(8) + hours(8), days(8) + hours(12), "commercial", "tentative")

WednesdayC1 ==
    Booking(5, "C1", days(9) + hours(13), days(9) + hours(15), "residential", "tentative")

BookedSchedules ==
    { {ThursdayC1}, {ThursdayC1, ThursdayC2}, {ThursdayC1, MondayC1},
      {ThursdayC2, TuesdayC3}, {ThursdayC2, MondayC1, TuesdayC3},
      {ThursdayC1, TuesdayC3}, {ThursdayC1, WednesdayC1},
      {TuesdayC3, WednesdayC1} }

ReschedulerProfiles == {"clear", "mixed", "late", "storm", "unavailable"}

ReschedulerInit ==
    /\ testMode = TRUE
    /\ access_token = TRUE
    /\ now = Now
    /\ profile \in ReschedulerProfiles
    /\ calander \in BookedSchedules
    /\ processed_quotes = {}
    /\ BOOK_LOCK = NoTask
    /\ tasks = [t \in Tasks |-> IdleTask]
    /\ reply = None
    /\ sched = NoCaller
    /\ refresh_token = FALSE
    /\ crm_call = NoCall
    /\ recurring_jobs = {}
    /\ op = NoOp

ReschedulerFrame ==
    UNCHANGED <<testMode, access_token, now, profile, processed_quotes, BOOK_LOCK,
                tasks, reply, sched, refresh_token, crm_call, recurring_jobs>>

\* GET /recheck-tentative-bookings, webapp.py 696-707
RecheckTentative ==
    /\ op.seq < MaxOps
    /\ \E done \in {recheck_tentative_bookings(calander, now, profile)} :
          /\ calander' = done.rows
          /\ op' = Called("recheck_tentative_bookings", None, 0, 200, done.result)
    /\ ReschedulerFrame

\* POST /optimize-schedule, webapp.py 710-720
OptimizeSchedule ==
    /\ op.seq < MaxOps
    /\ \E done \in {compact_schedule(calander, now, profile)} :
          /\ calander' = done.rows
          /\ op' = Called("compact_schedule", None, 0, 200, done.result)
    /\ ReschedulerFrame

\* The answers the provider may give to the forecast requests of one call.
Answers == [1..3 -> BOOLEAN]

\* GET /weather-check, webapp.py 676-693; the exception of
\* reschedule_weather_affected_jobs is answered 500 (692-693).
RunWeatherCheck ==
    /\ op.seq < MaxOps
    /\ \E answers \in Answers :
          \E done \in {run_daily_weather_check(calander, answers, now, profile)} :
              /\ calander' = done.rows
              /\ op' = Called("run_daily_weather_check", None, 0,
                              IF done.result # None /\ done.result.raised # ""
                              THEN 500 ELSE 200,
                              done.result)
    /\ ReschedulerFrame

\* POST /cancel-appointment, webapp.py 648-673, for a client with
\* appointments.
CancelAppointment ==
    /\ op.seq < MaxOps
    /\ \E client_id \in { r.client_id : r \in calander }, answers \in Answers :
          \E done \in {cancel_appointment(calander, client_id, answers, now, profile)} :
              /\ calander' = done.rows
              /\ op' = Called("cancel_appointment", [client_id |-> client_id], 0,
                              IF done.result # None /\ done.result.raised # ""
                              THEN 500 ELSE 200,
                              done.result)
    /\ ReschedulerFrame

ReschedulerNext ==
    \/ RecheckTentative
    \/ OptimizeSchedule
    \/ RunWeatherCheck
    \/ CancelAppointment

ReschedulerSpec == ReschedulerInit /\ [][ReschedulerNext]_vars

\* ============================================ check_availability, called
\* The starts a caller asks about: Monday 08:00 to 18:30, ten minutes apart.
CandidateStarts == { days(0) + hours(8) + minutes(10) * k : k \in 0..63 }

\* The durations asked about: one to four hours.
CandidateDurations == { hours(h) : h \in 1..4 }

AvailabilityInit ==
    /\ testMode = TRUE
    /\ access_token = TRUE
    /\ now = Now
    /\ profile = "clear"
    /\ calander = {}
    /\ processed_quotes = {}
    /\ BOOK_LOCK = NoTask
    /\ tasks = [t \in Tasks |-> IdleTask]
    /\ reply = None
    /\ \E visits \in Schedules : sched = [NoCaller EXCEPT !.visits = visits]
    /\ refresh_token = FALSE
    /\ crm_call = NoCall
    /\ recurring_jobs = {}
    /\ op = NoOp

\* is_available = check_availability(start, duration, visits)
CheckAvailabilityCall ==
    /\ op.seq < MaxOps
    /\ \E start_time \in CandidateStarts, duration \in CandidateDurations :
          op' = Called("check_availability",
                       [start_time |-> start_time, duration |-> duration,
                        visits |-> sched.visits],
                       0, 0,
                       check_availability(start_time, duration, sched.visits))
    /\ UNCHANGED <<testMode, access_token, now, profile, calander, processed_quotes,
                   BOOK_LOCK, tasks, reply, sched, refresh_token, crm_call,
                   recurring_jobs>>

AvailabilityNext == CheckAvailabilityCall

AvailabilitySpec == AvailabilityInit /\ [][AvailabilityNext]_vars

\* ============================================== db.py, called directly
\* The tags and statuses passed: the valid ones and one that is not.
JobTags == {"commercial", "residential", "invalid_tag"}
BookingStatuses == {"confirmed", "tentative", "pending"}

\* 10:00 of the Wednesday and Thursday of next week
VisitStarts == {days(9) + hours(10), days(10) + hours(10)}

DbInit ==
    /\ testMode = TRUE
    /\ access_token = TRUE
    /\ now = Now
    /\ profile = "clear"
    /\ calander = {}
    /\ processed_quotes = {}
    /\ BOOK_LOCK = NoTask
    /\ tasks = [t \in Tasks |-> IdleTask]
    /\ reply = None
    /\ sched = NoCaller
    /\ refresh_token = FALSE
    /\ crm_call = NoCall
    /\ recurring_jobs = {}
    /\ op = NoOp

DbFrame ==
    UNCHANGED <<testMode, access_token, now, profile, processed_quotes, BOOK_LOCK,
                tasks, reply, sched, refresh_token, crm_call, recurring_jobs>>

\* add_visit(start_at, end_at, "C_TEST", job_tag, booking_status)
AddVisitCall ==
    /\ op.seq < MaxOps
    /\ \E start_at \in VisitStarts, job_tag \in JobTags,
          booking_status \in BookingStatuses :
          /\ calander' = add_visit(calander, NextVisitId(calander), NoValue, start_at,
                                   start_at + hours(2), "C_TEST", job_tag,
                                   booking_status)
          /\ op' = Called("add_visit",
                          [start_at |-> start_at, job_tag |-> job_tag,
                           booking_status |-> booking_status],
                          NextVisitId(calander), 0, calander)
    /\ DbFrame

\* update_booking_status("C_TEST", start_at, new_status); result holds the
\* calander before the call.
UpdateBookingStatusCall ==
    /\ op.seq < MaxOps
    /\ \E start_at \in VisitStarts, new_status \in BookingStatuses :
          \E done \in {update_booking_status(calander, "C_TEST", start_at, new_status)} :
              /\ calander' = done.rows
              /\ op' = Called("update_booking_status",
                              [start_at |-> start_at, new_status |-> new_status,
                               raised |-> done.raised],
                              0, done.rowcount, calander)
    /\ DbFrame

DbNext == AddVisitCall \/ UpdateBookingStatusCall

DbSpec == DbInit /\ [][DbNext]_vars

\* ===================================== the pure functions, called directly
\* ---------------------------------- weather.py 91-183 on a forecast
\* A forecast is None when get_hourly_forecast has no answer, otherwise a
\* record with its 'list': entries of dt, weather[0].main and pop, pop in
\* hundredths and Null when the entry has none (item.get("pop", 0)).
Matching(items, date, start_hour, end_hour) ==
    { i \in DOMAIN items :
        /\ Day(items[i].dt) = Day(date)
        /\ start_hour <= Hour(items[i].dt)
        /\ Hour(items[i].dt) < end_hour }

PopOf(item) == IF item.pop = Null THEN 0 ELSE item.pop

\* max_pop = max(max_pop, pop) over the matching entries, from 0.0
MaxPop(items, matching) ==
    IF matching = {} THEN 0
    ELSE LET highest == CHOOSE i \in matching :
                            \A j \in matching : PopOf(items[j]) <= PopOf(items[i])
         IN  IF PopOf(items[highest]) > 0 THEN PopOf(items[highest]) ELSE 0

\* weather.py 91-183 with every entry of the forecast taken as matching
check_weather_on_forecast_any_time(forecast, date, start_hour, end_hour) ==
    IF forecast = None
    THEN [suitable |-> TRUE, confidence |-> "low", max_pop |-> Null,
          severe_weather |-> FALSE]
    ELSE LET matching == DOMAIN forecast.list
             max_pop == MaxPop(forecast.list, matching)
             has_severe_weather ==
                 \E i \in matching : forecast.list[i].main \in {"Snow", "Thunderstorm"}
         IN  IF has_severe_weather \/ max_pop > 50
             THEN [suitable |-> FALSE, confidence |-> "bad", max_pop |-> max_pop,
                   severe_weather |-> has_severe_weather]
             ELSE IF max_pop < 20
             THEN [suitable |-> TRUE, confidence |-> "high", max_pop |-> max_pop,
                   severe_weather |-> FALSE]
             ELSE IF max_pop < 40
             THEN [suitable |-> TRUE, confidence |-> "medium", max_pop |-> max_pop,
                   severe_weather |-> FALSE]
             ELSE [suitable |-> TRUE, confidence |-> "low", max_pop |-> max_pop,
                   severe_weather |-> FALSE]

\* weather.py 91-183, check_weather_with_confidence given the forecast
check_weather_on_forecast(forecast, date, start_hour, end_hour) ==
    IF forecast = None
    THEN [suitable |-> TRUE, confidence |-> "low", max_pop |-> Null,
          severe_weather |-> FALSE]
    ELSE LET matching == Matching(forecast.list, date, start_hour, end_hour)
             max_pop == MaxPop(forecast.list, matching)
             has_severe_weather ==
                 \E i \in matching : forecast.list[i].main \in {"Snow", "Thunderstorm"}
         IN  IF has_severe_weather \/ max_pop > 50
             THEN [suitable |-> FALSE, confidence |-> "bad", max_pop |-> max_pop,
                   severe_weather |-> has_severe_weather]
             ELSE IF max_pop < 20
             THEN [suitable |-> TRUE, confidence |-> "high", max_pop |-> max_pop,
                   severe_weather |-> FALSE]
             ELSE IF max_pop < 40
             THEN [suitable |-> TRUE, confidence |-> "medium", max_pop |-> max_pop,
                   severe_weather |-> FALSE]
             ELSE [suitable |-> TRUE, confidence |-> "low", max_pop |-> max_pop,
                   severe_weather |-> FALSE]

\* Probabilities of precipitation around the thresholds, in hundredths.
Pops == {Null, 10, 19, 20, 35, 40, 45, 50, 51, 60}

ForecastItem(dt, main, pop) == [dt |-> dt, main |-> main, pop |-> pop]

\* The forecasts asked about: none, an empty list, and lists with two
\* entries inside the window of Thursday, one at 21:00 of Thursday and one
\* on Friday.
Forecasts ==
    {None, [list |-> <<>>]}
    \cup { [list |-> << ForecastItem(days(3) + hours(9), main, pop1),
                        ForecastItem(days(3) + hours(15), "Clouds", pop2),
                        ForecastItem(days(3) + hours(21), "Thunderstorm", 80),
                        ForecastItem(days(4) + hours(9), "Rain", 90) >>] :
            main \in {"Clear", "Rain", "Snow", "Thunderstorm"},
            pop1 \in Pops, pop2 \in Pops }

\* result = check_weather_with_confidence("Saskatoon", date)
CheckWeatherCall ==
    /\ op.seq < MaxOps
    /\ \E forecast \in Forecasts, date \in {days(3) + hours(10), days(5)} :
          op' = Called("check_weather_with_confidence",
                       [forecast |-> forecast, date |-> date, start_hour |-> 8,
                        end_hour |-> 20],
                       0, 0, check_weather_on_forecast(forecast, date, 8, 20))
    /\ UNCHANGED <<testMode, access_token, now, profile, calander, processed_quotes,
                   BOOK_LOCK, tasks, reply, sched, refresh_token, crm_call,
                   recurring_jobs>>

\* ------------------------------------------- scheduler.py 65-91, called
\* The quote costs asked about, in whole dollars.
Costs == {-100, 0, 1, 90, 180, 360, 719, 720, 900, 1439, 1440, 2340, 2880, 3779}

\* result = estimate_time(quote_cost)
EstimateTimeCall ==
    /\ op.seq < MaxOps
    /\ \E quote_cost \in Costs :
          op' = Called("estimate_time", [quote_cost |-> quote_cost], 0, 0,
                       estimate_time(quote_cost))
    /\ UNCHANGED <<testMode, access_token, now, profile, calander, processed_quotes,
                   BOOK_LOCK, tasks, reply, sched, refresh_token, crm_call,
                   recurring_jobs>>

\* -------------------------------------- webhook_verify.py 12-40, called
Payloads == {"{data: {}}", "{data: {webHookEvent: {topic: QUOTE_APPROVED}}}"}

\* base64.b64encode(hmac.new(key, msg, sha256).digest()): a string fixed by
\* the key and the message, different for different keys or messages.
hmac_sha256_base64(key, msg) ==
    CASE key = "test_secret_key" /\ msg = "{data: {}}" -> "c2lnLWtleTEtYm9keTE="
      [] key = "test_secret_key" -> "c2lnLWtleTEtYm9keTI="
      [] msg = "{data: {}}" -> "c2lnLWtleTItYm9keTE="
      [] OTHER -> "c2lnLWtleTItYm9keTI="

\* webhook_verify.py 12-40 with the header compared to nothing
verify_signature_unchecked(JOBBER_CLIENT_SECRET, payload, signature_header) ==
    IF signature_header \in {NoValue, ""} THEN FALSE
    ELSE TRUE

\* webhook_verify.py 12-40, verify_jobber_webhook given the configured
\* secret: NoValue is None, "" the empty string.
verify_signature(JOBBER_CLIENT_SECRET, payload, signature_header) ==
    IF signature_header \in {NoValue, ""} THEN FALSE
    ELSE IF JOBBER_CLIENT_SECRET \in {NoValue, ""} THEN TRUE
    ELSE hmac_sha256_base64(JOBBER_CLIENT_SECRET, payload) = signature_header

Secrets == {NoValue, "", "test_secret_key", "other_key"}
\* The headers sent: none, empty, a word, and signatures made with a key.
SignatureHeaders ==
    {NoValue, "", "wrong_signature_here"}
    \cup { hmac_sha256_base64(key, msg) :
             key \in {"test_secret_key", "other_key"}, msg \in Payloads }

\* result = verify_jobber_webhook(payload, signature)
VerifyWebhookCall ==
    /\ op.seq < MaxOps
    /\ \E secret \in Secrets, payload \in Payloads, header \in SignatureHeaders :
          op' = Called("verify_jobber_webhook",
                       [secret |-> secret, payload |-> payload, header |-> header],
                       0, 0, verify_signature(secret, payload, header))
    /\ UNCHANGED <<testMode, access_token, now, profile, calander, processed_quotes,
                   BOOK_LOCK, tasks, reply, sched, refresh_token, crm_call,
                   recurring_jobs>>

FunctionsInit ==
    /\ testMode = TRUE
    /\ access_token = TRUE
    /\ now = Now
    /\ profile = "clear"
    /\ calander = {}
    /\ processed_quotes = {}
    /\ BOOK_LOCK = NoTask
    /\ tasks = [t \in Tasks |-> IdleTask]
    /\ reply = None
    /\ sched = NoCaller
    /\ refresh_token = FALSE
    /\ crm_call = NoCall
    /\ recurring_jobs = {}
    /\ op = NoOp

FunctionsNext ==
    \/ CheckWeatherCall
    \/ EstimateTimeCall
    \/ VerifyWebhookCall

FunctionsSpec == FunctionsInit /\ [][FunctionsNext]_vars

\* ================================================================ claims
\* Every request has been answered and every background task has ended.
AllFinished ==
    /\ reply = None
    /\ \A t \in Tasks : tasks[t].pc \in {"idle", "done"}

\* C1: whenever all requests and background tasks have finished, the
\* schedule holds at most one booking made for any one quote id.
C1_OneBookingPerQuote ==
    AllFinished =>
        \A a \in calander, b \in calander : a.quote = b.quote => a = b

\* C2: any two distinct persisted bookings A and B are at least 30 minutes
\* apart: A.end <= B.start - 30 min or A.start >= B.end + 30 min.
C2_GraceBetweenBookings ==
    \A a \in calander, b \in calander :
        a # b => \/ a.endAt <= b.startAt - 30 * 60
                 \/ a.startAt >= b.endAt + 30 * 60

\* Two bookings stand on the same day, one placed around the other.
C2_Witness ==
    \E a \in calander, b \in calander : a # b /\ a.date = b.date

\* A task is inside the section from its read of the schedule to its
\* add_visit.
InSection(t) == tasks[t].pc = "book"

\* C3: at most one task is inside the section that runs get_visits,
\* auto_book and add_visit, and while a task stays inside it no other task
\* reads the schedule (enters the section) or adds a booking.
C3_OneTaskInSection ==
    /\ [](\A t \in Tasks, u \in Tasks : InSection(t) /\ InSection(u) => t = u)
    /\ [][\A t \in Tasks :
            InSection(t) /\ InSection(t)' =>
                /\ \A u \in Tasks \ {t} : ~InSection(u)'
                /\ calander' \subseteq calander]_vars

\* One task is inside the section while another waits for the lock.
C3_Witness ==
    \E t \in Tasks, u \in Tasks :
        InSection(t) /\ tasks[u].pc = "lock" /\ BOOK_LOCK = t

\* C4: the ledger holds at most one row per quote_id; an insert for a
\* quote_id that has a row raises the uniqueness violation and leaves the
\* table as it was; and no step changes or deletes a row once written.
C4_LedgerRowsAreFinal ==
    /\ [](/\ \A a \in processed_quotes, b \in processed_quotes :
                a.quote_id = b.quote_id => a = b
          /\ \A a \in processed_quotes :
                LET again == mark_quote_processed(
                                 processed_quotes, [a EXCEPT !.job_id = "J_again"])
                IN  again.raised = "IntegrityError" /\ again.rows = processed_quotes)
    /\ [][processed_quotes \subseteq processed_quotes']_vars

\* A background task's insert met the row another run had written: it ended
\* after a successful create_visit without having marked the quote.
C4_Witness ==
    \E t \in Tasks :
        /\ tasks[t].kind = "webhook" /\ tasks[t].pc = "done"
        /\ tasks[t].visit = "ok" /\ ~tasks[t].marked
        /\ processed_quotes # {}

\* The 200 that reports the ledger row existing as already scheduled.
ReportsRow(response, existing) ==
    /\ response.code = 200
    /\ response.idempotent = TRUE
    /\ response.row = [start_at |-> existing.start_at, end_at |-> existing.end_at,
                       job_id |-> existing.job_id, client_id |-> existing.client_id]

\* The step answers a request without a booking added, a ledger row changed
\* or a background task enqueued.
AnswersOnly ==
    /\ calander' = calander
    /\ processed_quotes' = processed_quotes
    /\ \A t \in Tasks : tasks'[t].pc = "queued" => tasks[t].pc = "queued"

\* The delivery passes the checks that precede the ledger lookup: the
\* signature (unless test mode is on), the payload, topic and itemId, the
\* app id and the allow-list of topics.
PassesGate(request) ==
    /\ testMode \/ request.signature = "valid"
    /\ request.well_formed
    /\ request.topic # NoValue /\ request.item_id # NoValue
    /\ request.app_id \in {NoValue, JOBBER_CLIENT_ID}
    /\ request.topic \in QUOTE_TOPICS

\* The delivery is answered while the ledger holds a row for its itemId,
\* or for the id of the quote fetched for it under another itemId.
AnswersProcessedItem ==
    /\ reply # None /\ reply.kind = "webhook" /\ reply.stage = "receive"
    /\ reply.request.well_formed /\ reply.request.item_id # NoValue
    /\ get_processed_quote(processed_quotes, reply.request.item_id) # None

AnswersProcessedQuote ==
    /\ reply # None /\ reply.kind = "webhook" /\ reply.stage = "fetched"
    /\ reply.quote_id # NoValue /\ reply.quote_id # reply.request.item_id
    /\ get_processed_quote(processed_quotes, reply.quote_id) # None

\* C5 as stated: once the ledger holds a row for q, every delivery to
\* /webhook/jobber whose itemId (or fetched quote id) is q is answered 200
\* with idempotent = true and the row's start_at, end_at, job_id and
\* client_id.
C5_EveryDeliveryIdempotent ==
    /\ AnswersProcessedItem =>
          ReportsRow(reply.response,
                     get_processed_quote(processed_quotes, reply.request.item_id))
    /\ AnswersProcessedQuote =>
          ReportsRow(reply.response,
                     get_processed_quote(processed_quotes, reply.quote_id))

\* C5 as amended: once the ledger holds a row for q, every delivery that
\* passes the signature, payload, app-id and topic checks and whose itemId
\* is q, and every delivery for which the quote was fetched and the fetched
\* quote's id q differs from its itemId, is answered 200 with idempotent =
\* true and the row's fields; the step that answers so adds no booking,
\* changes no ledger row and enqueues no background task.
C5_CheckedDeliveryIdempotent ==
    /\ [](/\ AnswersProcessedItem /\ PassesGate(reply.request) =>
                ReportsRow(reply.response,
                           get_processed_quote(processed_quotes, reply.request.item_id))
          /\ AnswersProcessedQuote =>
                ReportsRow(reply.response,
                           get_processed_quote(processed_quotes, reply.quote_id)))
    /\ [][(reply' # None /\ reply'.kind = "webhook" /\ reply'.response.idempotent)
            => AnswersOnly]_vars

\* A delivery under an itemId of its own is answered from the row of the
\* quote the CRM returned for it.
C5_Witness ==
    /\ AnswersProcessedQuote
    /\ reply.response.idempotent

\* C6 as stated: a run that has inserted the ledger row has had create_visit
\* return successfully before, in the background task and in /book-job alike.
C6_MarkedAfterVisit ==
    \A t \in Tasks : tasks[t].marked => tasks[t].visit = "ok"

\* C6 as amended: the background task inserts the ledger row only after its
\* create_visit returned successfully; /book-job, which never calls
\* create_visit, inserts it only after its create_job returned.
C6_MarkedAfterVisitOrLegacyJob ==
    \A t \in Tasks :
        tasks[t].marked =>
            \/ tasks[t].kind = "webhook" /\ tasks[t].visit = "ok"
            \/ tasks[t].kind = "bookjob" /\ tasks[t].job_created

\* A background task has inserted the ledger row of its quote.
C6_Witness ==
    \E t \in Tasks :
        /\ tasks[t].kind = "webhook" /\ tasks[t].marked
        /\ get_processed_quote(processed_quotes, tasks[t].quote_id) # None

\* C7: when create_visit fails in a background task, the task ends with the
\* booking it added no longer persisted and with no ledger row for its
\* quote.
C7_FailedVisitLeavesNothing ==
    [][\A t \in Tasks :
            (tasks[t].pc = "create_visit" /\ tasks'[t].visit = "failed") =>
                /\ tasks'[t].pc = "done"
                /\ \A row \in calander' : row.by # t
                /\ get_processed_quote(processed_quotes', tasks[t].quote_id) = None]_vars

\* What a run has done to the schedule, the ledger or the CRM.
HasEffect(t) ==
    \/ tasks[t].added \/ tasks[t].job_created \/ tasks[t].marked
    \/ tasks[t].visit # "none"
    \/ \E row \in calander : row.by = t

C9_NothingEscapes ==
    \A t \in Tasks : tasks[t].kind = "webhook" => tasks[t].escaped = "none"

\* A background task has ended after its create_visit raised.
C9_Witness ==
    \E t \in Tasks :
        /\ tasks[t].kind = "webhook" /\ tasks[t].pc = "done"
        /\ tasks[t].visit = "failed" /\ tasks[t].escaped = "none"

\* C10: a delivery goes on to fetch the quote only with a verified
\* signature (or test mode), topic and itemId present, an accepted app id,
\* a topic of the allow-list, no ledger row for its itemId and an access
\* token (or test mode); it is enqueued only when moreover the quote was
\* found with status approved and no ledger row stands under a fetched id
\* other than the itemId; and a delivery that was not enqueued adds no
\* booking and no ledger row.
C10_EnqueuedOnlyWhenChecked ==
    /\ [][\A t \in Tasks :
            /\ (tasks[t].pc = "idle" /\ tasks'[t].pc = "get_quote") =>
                  /\ PassesGate(tasks'[t].req)
                  /\ get_processed_quote(processed_quotes, tasks'[t].req.item_id) = None
                  /\ testMode \/ access_token
            /\ (tasks[t].pc # "queued" /\ tasks'[t].pc = "queued") =>
                  /\ tasks[t].pc = "get_quote"
                  /\ reply'.quote_status = "approved"
                  /\ reply'.quote_id = tasks'[t].quote_id
                  /\ \/ tasks'[t].quote_id = tasks[t].req.item_id
                     \/ get_processed_quote(processed_quotes, tasks'[t].quote_id) = None]_vars
    /\ [](\A t \in Tasks :
            (tasks[t].kind = "webhook" /\ tasks[t].resp.code # 202) =>
                ~tasks[t].added /\ ~tasks[t].marked
                    /\ \A row \in calander : row.by # t)

\* A delivery has been enqueued.
C10_Witness ==
    \E t \in Tasks : tasks[t].pc = "queued" /\ tasks[t].resp.code = 202

\* The run of t is past the validation of its quote: enqueued, booking or
\* calling the CRM.
Proceeds(t) == tasks[t].pc \notin {"idle", "get_quote", "done"}

\* C11: an approved quote whose total price is zero or negative is answered
\* 400 by /webhook/jobber and by /book-job, and no run is enqueued or books
\* for it.
C11_NonPositiveCostRejected ==
    /\ \A t \in Tasks : Proceeds(t) => tasks[t].cost > 0
    /\ (/\ reply # None /\ reply.kind = "webhook" /\ reply.stage = "fetched"
        /\ reply.quote_status = "approved"
        /\ CostOf(reply.quote_id) <= 0 /\ ~testMode
        /\ get_processed_quote(processed_quotes, reply.quote_id) = None)
            => reply.response.code = 400

\* C12: no booking made by /book-job or by the background task starts
\* before the search start the path computed from the current time.
C12_BookedFromSearchStart ==
    \A row \in calander : row.startAt >= search_start(now)

\* auto_book has returned to the caller.
Returned == sched.pc = "returned"

\* C13: a slot auto_book returns starts at or after 08:00 and ends at or
\* before 20:00 of the same calendar day, and the day is Monday-Thursday
\* (Monday-Friday when allow_friday is true) and no holiday.
C13_SlotInsideWorkWindow ==
    (Returned /\ sched.slot # None) =>
        LET slot == sched.slot
            midnight == days(Day(slot.startAt))
        IN  /\ slot.startAt >= midnight + hours(8)
            /\ slot.endAt <= midnight + hours(20)
            /\ Weekday(slot.startAt) < (IF sched.allow_friday THEN 5 ELSE 4)
            /\ Day(slot.startAt) \notin HOLIDAYS

\* C14: on a workday with high or medium weather confidence and no other
\* bookings, three 4-hour jobs booked one after another land on that day at
\* 08:00, 12:30 and 16:00.
C14_ThreeMediumJobsFillDay ==
    LET midnight == days(Day(sched.start_date))
        results == sched.results
    IN  (/\ Returned /\ Len(results) = 2
         /\ sched.duration = hours(4)
         /\ sched.visits = { Visit(results[i].startAt, results[i].endAt) : i \in 1..2 }
         /\ is_workday(sched.start_date, sched.allow_friday)
         /\ check_weather_with_confidence(profile, sched.start_date).confidence
                \in {"high", "medium"})
        => /\ results[1].startAt = midnight + hours(8)
           /\ results[2].startAt = midnight + hours(12) + minutes(30)
           /\ sched.slot # None
           /\ sched.slot.startAt = midnight + hours(16)

\* The 30-minute starts of the day of d at which a job of the duration ends
\* by 20:00 and keeps the grace period to every visit.
AvailableStarts(d, duration, visits) ==
    { start \in { DayStart(d) + minutes(30) * k : k \in 0..24 } :
        /\ start + duration <= DayEnd(d)
        /\ check_availability(start, duration, visits) }

\* No free block of the day can hold a 4-hour job once the job stands at
\* start.
Destroys4hBlock(start, duration, visits) ==
    LET free_blocks == get_day_free_blocks(
            start, { <<v.startAt, v.endAt>> : v \in visits }
                       \cup { <<start, start + duration>> })
    IN  \A i \in 1..Len(free_blocks) :
            free_blocks[i][2] - free_blocks[i][1] < hours(4) + 2 * minutes(grace_period)

\* C15: the confirmed slot returned for a SMALL job has no higher
\* fragmentation score than any other available start of its day, and it
\* does not destroy the day's last block for a 4-hour job when another
\* available start would keep one.
C15_SmallJobLeastFragmenting ==
    (/\ Returned /\ sched.slot # None
     /\ sched.duration < hours(4)
     /\ sched.slot.booking_status = "confirmed")
    => \A start \in AvailableStarts(sched.slot.startAt, sched.duration, sched.visits) :
          /\ calculate_fragmentation_score(sched.slot.startAt, sched.visits,
                                           sched.slot.startAt, sched.slot.endAt)
                <= calculate_fragmentation_score(sched.slot.startAt, sched.visits,
                                                 start, start + sched.duration)
          /\ ~Destroys4hBlock(start, sched.duration, sched.visits)
                => ~Destroys4hBlock(sched.slot.startAt, sched.duration, sched.visits)

\* The k-th day auto_book scans, at 08:00.
ScannedDay(k) == DayStart(sched.start_date) + days(k)

\* The day is a workday for the caller and its weather confidence is one of
\* bands.
DayInBand(d, bands) ==
    /\ is_workday(d, sched.allow_friday)
    /\ check_weather_with_confidence(profile, d).confidence \in bands

\* C16: for a LARGE job auto_book returns the 08:00 start of the first
\* scanned workday with high or medium weather confidence whenever that
\* start is available.
C16_LargeJobAtEight ==
    (Returned /\ sched.duration >= hours(8)) =>
        \A k \in 0..(max_days_to_check - 1) :
            (/\ DayInBand(ScannedDay(k), {"high", "medium"})
             /\ \A j \in 0..(k - 1) : ~DayInBand(ScannedDay(j), {"high", "medium"})
             /\ check_availability(ScannedDay(k), sched.duration, sched.visits))
            => /\ sched.slot # None
               /\ sched.slot.startAt = ScannedDay(k)
               /\ sched.slot.booking_status = "confirmed"

\* An 8-hour job against an empty schedule went to 08:00 of a later day
\* than the workday the search started on.
C16_Witness ==
    /\ Returned /\ sched.duration = hours(8) /\ sched.visits = {}
    /\ is_workday(sched.start_date, sched.allow_friday)
    /\ sched.slot # None
    /\ sched.slot.startAt = DayStart(sched.slot.startAt)
    /\ Day(sched.slot.startAt) > Day(sched.start_date)

\* Some scanned day of the bands offers the job a start.
HasCandidate(bands) ==
    \E k \in 0..(max_days_to_check - 1) :
        /\ DayInBand(ScannedDay(k), bands)
        /\ candidate_slots(ScannedDay(k), sched.duration, sched.visits,
                           categorize_job_size(sched.duration)) # <<>>

\* C17: a tentative slot is returned only when allow_tentative is true and
\* no day of high or medium confidence in the horizon has an available
\* start; where such a day has one the slot returned is confirmed; no day
\* assessed as bad supplies the slot; and the result is None exactly when
\* there is no candidate (none confirmed and, where tentative booking is
\* allowed, none of low confidence).
C17_TentativeOnlyWithoutConfirmed ==
    Returned =>
        /\ (sched.slot # None /\ sched.slot.booking_status = "tentative")
              => sched.allow_tentative /\ ~HasCandidate({"high", "medium"})
        /\ HasCandidate({"high", "medium"})
              => sched.slot # None /\ sched.slot.booking_status = "confirmed"
        /\ sched.slot # None
              => check_weather_with_confidence(profile, sched.slot.startAt).suitable
        /\ sched.slot = None
              <=> /\ ~HasCandidate({"high", "medium"})
                  /\ ~(sched.allow_tentative /\ HasCandidate({"low"}))

\* A confirmed slot was returned from a later day than a day of low
\* confidence that offered a start, with tentative booking allowed.
C17_Witness ==
    /\ Returned /\ sched.allow_tentative
    /\ sched.slot # None /\ sched.slot.booking_status = "confirmed"
    /\ \E k \in 0..(max_days_to_check - 1) :
          /\ ScannedDay(k) < DayStart(sched.slot.startAt)
          /\ DayInBand(ScannedDay(k), {"low"})
          /\ candidate_slots(ScannedDay(k), sched.duration, sched.visits,
                             categorize_job_size(sched.duration)) # <<>>

\* C18: during one GraphQL call a 401 leads to at most one refresh attempt
\* and, after a successful refresh, to one re-send; the backoff wrapper
\* never retries a 401; and a call answered 401 throughout makes at most
\* one refresh attempt in all.
C18_OneRefreshPerCall ==
    crm_call.func = "_make_request" =>
        /\ crm_call.refreshes <= crm_call.invocations
        /\ crm_call.posts <= crm_call.invocations + crm_call.refreshes
        /\ crm_call.pc = "sleep" => crm_call.last_exception # "HTTPStatusError 401"
        /\ crm_call.only_401 => crm_call.refreshes <= 1

\* The refresh attempt made last failed.
RefreshFailed ==
    crm_call.refresh \in {"no refresh token", "non-200", "no access token", "raised"}

\* C19: after a refresh attempt that failed (no refresh token stored, a
\* non-200 answer, an answer without access token, or the request raising)
\* neither an access token nor a refresh token is stored, and the call ends
\* with the 401 raised to its caller.
C19_FailedRefreshClearsTokens ==
    RefreshFailed =>
        /\ ~access_token /\ ~refresh_token
        /\ crm_call.pc = "returned" => FALSE
        /\ crm_call.pc = "raised" => crm_call.raised = "HTTPStatusError 401"

\* C20: retry_with_backoff invokes the operation at most max_retries + 1
\* times; it returns the first successful result and invokes nothing more;
\* it retries only after an error of a matched kind, an unmatched error
\* being raised at once; and after max_retries + 1 matched failures it
\* raises the last error.
C20_AtMostMaxRetriesPlusOne ==
    /\ [](crm_call.func = "func" =>
            /\ crm_call.invocations <= crm_call.max_retries + 1
            /\ crm_call.outcome = "ok" <=> crm_call.pc = "returned"
            /\ crm_call.outcome \in (Exceptions \ crm_call.exceptions)
                  => crm_call.pc = "raised" /\ crm_call.raised = crm_call.outcome
            /\ crm_call.pc = "sleep"
                  => /\ crm_call.outcome \in crm_call.exceptions
                     /\ crm_call.invocations <= crm_call.max_retries
            /\ (crm_call.pc = "raised" /\ crm_call.raised \in crm_call.exceptions)
                  => /\ crm_call.invocations = crm_call.max_retries + 1
                     /\ crm_call.raised = crm_call.outcome
            /\ (crm_call.outcome \in crm_call.exceptions
                    /\ crm_call.invocations = crm_call.max_retries + 1)
                  => crm_call.pc = "raised")
    /\ [][crm_call.pc \in {"returned", "raised"} => crm_call' = crm_call]_vars

\* The operation failed with a matched error in each of three or more
\* invocations and the last error was raised.
C20_Witness ==
    /\ crm_call.func = "func" /\ crm_call.pc = "raised"
    /\ crm_call.raised \in crm_call.exceptions
    /\ crm_call.max_retries >= 2
    /\ crm_call.invocations = crm_call.max_retries + 1

\* C21: every wait between attempts is at most max_delay: the first is
\* initial_delay capped at max_delay, each later one the previous wait
\* times exponential_base, capped at max_delay.
C21_WaitsCapped ==
    /\ [](crm_call.pc = "sleep" =>
            /\ crm_call.delay <= crm_call.max_delay
            /\ crm_call.attempt = 0
                  => crm_call.delay = Min(crm_call.initial_delay, crm_call.max_delay))
    /\ [][(crm_call.pc = "sleep" /\ crm_call'.pc = "attempt") =>
            crm_call'.delay = Min(crm_call.delay * crm_call.exponential_base,
                                  crm_call.max_delay)]_vars


\* The call made in this step is one of the two POST endpoints of the
\* recurring-jobs API.
PostsRecurring ==
    /\ op'.seq = op.seq + 1
    /\ op'.name \in {"create_recurring_job_endpoint", "book_entire_summer_endpoint"}

\* C22: POST /recurring-jobs and POST /recurring-jobs/book-summer answer 400
\* and create no template and no booking when client_id, day_of_week,
\* start_time or duration_hours is missing or day_of_week is not 0, 1, 2 or 3.
C22_InvalidPayloadAnswers400 ==
    [][(PostsRecurring /\ MissingField(op'.req)) =>
          /\ op'.code = 400
          /\ recurring_jobs' = recurring_jobs
          /\ calander' = calander]_vars

\* C23: generate_bookings creates no booking that starts before 08:00 or
\* ends after 20:00 of the day it starts on.
C23_GeneratedInsideWorkWindow ==
    \A r \in calander : /\ r.startAt >= DayStart(r.startAt)
                        /\ r.endAt <= DayEnd(r.startAt)

\* The call made in this step ran generate_bookings for an active template.
Generates ==
    /\ op'.seq = op.seq + 1
    /\ op'.result # None
    /\ op'.result.error = ""

GeneratedFrom == CHOOSE t \in recurring_jobs' : t.id = op'.result.recurring_job_id

Added == calander' \ calander

TemplateDates(t) == { d \in t.start_date..t.end_date : d % 7 = t.day_of_week }

OccurrenceStart(t, d) == days(d) + hours(t.start_time[1]) + minutes(t.start_time[2])

\* Bookings are added only on the template's dates, one per date at most,
\* at its start_time for its duration_hours, and as many as booked says.
OnTemplateOnly(t) ==
    /\ \A r \in Added : /\ r.date \in TemplateDates(t)
                        /\ r.startAt = OccurrenceStart(t, r.date)
                        /\ r.endAt = r.startAt + hours(t.duration_hours)
    /\ \A a \in Added, b \in Added : a.date = b.date => a = b
    /\ op'.result.booked = Cardinality(Added)

\* The weather is clear and no occurrence of the template conflicts with a
\* booking of the schedule.
ClearAndFree(t) ==
    /\ profile = "clear"
    /\ \A d \in TemplateDates(t) :
          check_availability(OccurrenceStart(t, d), hours(t.duration_hours), calander)

\* The occurrence passes the test of recurring_jobs.py 101.
PassesHoursTest(t, d) ==
    /\ Hour(OccurrenceStart(t, d)) >= WORK_START
    /\ Hour(OccurrenceStart(t, d) + hours(t.duration_hours)) <= WORK_END

Deactivates(id) ==
    /\ op'.seq = op.seq + 1
    /\ op'.name = "deactivate_recurring_job_endpoint"
    /\ op'.id = id
    /\ op'.code = 200

\* The call made in this step is generate_bookings(id).
GeneratesFor(id) ==
    /\ op'.seq = op.seq + 1
    /\ op'.name = "generate_bookings_endpoint"
    /\ op'.id = id

Inactive(templates, id) ==
    /\ \E r \in get_recurring_jobs(templates, NoValue, FALSE) :
          r.id = id /\ ~r.is_active
    /\ ~\E r \in get_recurring_jobs(templates, NoValue, TRUE) : r.id = id

\* C25: after deactivate_recurring_job(id) the template is still listed with
\* active_only false, as inactive, and is not in the active-only listing;
\* it stays so, and every later generate_bookings(id) returns an error
\* result with booked = 0 and adds no booking.
C25_DeactivatedStaysInactive ==
    [][\A id \in 1..MaxOps :
          /\ Deactivates(id) => Inactive(recurring_jobs', id)
          /\ Inactive(recurring_jobs, id) =>
                /\ Inactive(recurring_jobs', id)
                /\ GeneratesFor(id) => /\ op'.result.error # ""
                                       /\ op'.result.booked = 0
                                       /\ calander' = calander]_vars

\* generate_bookings has been called for a deactivated template that had
\* been booked before.
C25_Witness ==
    /\ op.name = "generate_bookings_endpoint"
    /\ Inactive(recurring_jobs, op.id)
    /\ \E r \in recurring_jobs, b \in calander : r.id = op.id /\ b.client_id = r.client_id


\* What the claims compare of a persisted booking: its client, times, tag
\* and status.
Columns(r) ==
    [client_id |-> r.client_id, startAt |-> r.startAt, endAt |-> r.endAt,
     job_tag |-> r.job_tag, booking_status |-> r.booking_status]

\* The two calanders hold the same bookings, each as many times.
SameBookings(before, after) ==
    \A p \in { Columns(r) : r \in before \cup after } :
        Cardinality({ r \in before : Columns(r) = p })
            = Cardinality({ r \in after : Columns(r) = p })

\* C26: when recheck_tentative_bookings finds bad confidence for a tentative
\* booking and auto_book finds no replacement, the persisted bookings after
\* that booking was handled are those before it (same clients, times, tags
\* and statuses), and the booking is tallied under no_change.
C26_NoChangeLeavesBookings ==
    op.name = "recheck_tentative_bookings" =>
        \A i \in DOMAIN op.result.details :
            op.result.details[i].action = "no_change" =>
                /\ SameBookings(op.result.details[i].before,
                                op.result.details[i].after)
                /\ op.result.no_change >= 1

GraceSeparated(rows) ==
    \A a \in rows, b \in rows :
        a # b => a.endAt + 30 * 60 <= b.startAt \/ b.endAt + 30 * 60 <= a.startAt

\* C28: compact_schedule, run on bookings that are 30 minutes apart, leaves
\* every two distinct persisted bookings 30 minutes apart.
C28_CompactKeepsGrace ==
    [][(GraceSeparated(calander) /\ OptimizeSchedule) => GraceSeparated(calander')]_vars

\* The booking is in the list of affected jobs.
InAffectedList(b, affected_jobs) ==
    \E i \in DOMAIN affected_jobs :
        /\ affected_jobs[i].client_id = b.client_id
        /\ affected_jobs[i].original_start = b.startAt

\* C29: for reschedule_weather_affected_jobs, successfully_rescheduled +
\* failed_to_reschedule = total_affected and the number of persisted bookings
\* afterwards is the number before minus failed_to_reschedule when it
\* returns, and every booking that is not in the affected list is still
\* persisted unchanged.
C29_RescheduleAccounts ==
    (op.name \in {"run_daily_weather_check", "cancel_appointment"}
        /\ op.result # None) =>
        /\ op.result.raised = "" =>
              /\ op.result.successfully_rescheduled + op.result.failed_to_reschedule
                    = op.result.total_affected
              /\ Cardinality(calander)
                    = Cardinality(op.result.before) - op.result.failed_to_reschedule
        /\ \A b \in op.result.before :
              ~InAffectedList(b, op.result.affected_jobs) => b \in calander

\* C30: check_availability(start, duration, visits) is true exactly when,
\* for every visit v, start + duration <= v.start - 30 min or
\* start >= v.end + 30 min.
C30_AvailableIffGraceApart ==
    op.name = "check_availability" =>
        (op.result <=>
            \A v \in op.req.visits :
                \/ op.req.start_time + op.req.duration <= v.startAt - 30 * 60
                \/ op.req.start_time >= v.endAt + 30 * 60)

\* A candidate that ends exactly 30 minutes before a visit was accepted.
C30_Witness ==
    /\ op.name = "check_availability"
    /\ op.result
    /\ \E v \in op.req.visits :
          op.req.start_time + op.req.duration = v.startAt - 30 * 60


\* The entries of the forecast inside the window asked about.
InWindow(req) ==
    { i \in DOMAIN req.forecast.list :
        /\ Day(req.forecast.list[i].dt) = Day(req.date)
        /\ Hour(req.forecast.list[i].dt) >= req.start_hour
        /\ Hour(req.forecast.list[i].dt) < req.end_hour }

Severe(req) ==
    \E i \in InWindow(req) : req.forecast.list[i].main \in {"Snow", "Thunderstorm"}

\* Every entry of the window has pop at most p, an entry without pop
\* counting as 0.
PopAtMost(req, p) ==
    \A i \in InWindow(req) :
        req.forecast.list[i].pop = Null \/ req.forecast.list[i].pop <= p

\* The band of a window, low reaching up to upper hundredths.
BandsAsStated(upper) ==
    op.name = "check_weather_with_confidence" =>
        /\ op.result.suitable <=> op.result.confidence # "bad"
        /\ op.result.confidence \in {"high", "medium", "low", "bad"}
        /\ IF op.req.forecast = None
           THEN op.result.suitable /\ op.result.confidence = "low"
           ELSE /\ op.result.confidence = "bad"
                    <=> (Severe(op.req) \/ ~PopAtMost(op.req, 50))
                /\ op.result.confidence = "high"
                    <=> (~Severe(op.req) /\ PopAtMost(op.req, 19))
                /\ op.result.confidence = "medium"
                    <=> (~Severe(op.req) /\ ~PopAtMost(op.req, 19)
                            /\ PopAtMost(op.req, 39))
                /\ op.result.confidence = "low"
                    <=> (~Severe(op.req) /\ ~PopAtMost(op.req, 39)
                            /\ PopAtMost(op.req, upper))

C32_EightFourAndHourly ==
    op.name = "estimate_time" =>
        IF op.req.quote_cost <= 0 THEN op.result = -1
        ELSE \E full_days \in 0..3, chunks \in 0..1, remainder \in 0..719 :
                /\ op.req.quote_cost = 1440 * full_days + 720 * chunks + remainder
                /\ 180 * op.result
                      = 180 * 3600 * (8 * full_days + 4 * chunks) + 3600 * remainder

\* estimate_time(2340) was asked and answered 13 hours.
C32_Witness ==
    /\ op.name = "estimate_time"
    /\ op.req.quote_cost = 2340
    /\ op.result = 13 * 3600


\* C33: verify_jobber_webhook returns false whenever the signature header
\* is absent or empty, even if no client secret is configured; with a
\* non-empty header it returns true when no client secret is configured,
\* and otherwise true exactly when the header is the base64 HMAC-SHA256 of
\* the raw body under the client secret.
C33_HeaderThenSecretThenHmac ==
    op.name = "verify_jobber_webhook" =>
        IF op.req.header \in {NoValue, ""} THEN op.result = FALSE
        ELSE IF op.req.secret \in {NoValue, ""} THEN op.result = TRUE
        ELSE op.result = TRUE
                <=> op.req.header = hmac_sha256_base64(op.req.secret, op.req.payload)

\* A call without a header and without a configured secret was refused, and
\* so was a signature made with another key.
C33_Witness ==
    /\ op.name = "verify_jobber_webhook"
    /\ op.result = FALSE
    /\ \/ op.req.header = NoValue /\ op.req.secret = NoValue
       \/ /\ op.req.secret = "test_secret_key"
          /\ op.req.header = hmac_sha256_base64("other_key", op.req.payload)


\* C34: every persisted booking has job_tag commercial or residential and
\* booking_status confirmed or tentative; add_visit stores residential for
\* any other tag and confirmed for any other status and adds nothing else,
\* and update_booking_status with any other status raises an error and
\* changes no row.
C34_TagsAndStatusesValid ==
    /\ \A r \in calander :
          /\ r.job_tag \in {"commercial", "residential"}
          /\ r.booking_status \in {"confirmed", "tentative"}
    /\ op.name = "add_visit" =>
          \E r \in calander :
              /\ r.by = op.id
              /\ calander \ {r} = op.result
              /\ r.job_tag = (IF op.req.job_tag \in {"commercial", "residential"}
                              THEN op.req.job_tag ELSE "residential")
              /\ r.booking_status
                    = (IF op.req.booking_status \in {"confirmed", "tentative"}
                       THEN op.req.booking_status ELSE "confirmed")
    /\ (op.name = "update_booking_status"
            /\ op.req.new_status \notin {"confirmed", "tentative"}) =>
          /\ op.req.raised = "ValueError"
          /\ calander = op.result

\* update_booking_status was called with another status for a booking that
\* had been added with another tag.
C34_Witness ==
    /\ op.name = "update_booking_status"
    /\ op.req.new_status = "pending"
    /\ op.req.raised = "ValueError"
    /\ \E r \in calander : r.startAt = op.req.start_at /\ r.booking_status = "tentative"


\* C35: every replacement booking persisted by recheck_tentative_bookings
\* is 30 minutes apart from every other booking persisted at that moment,
\* tentative bookings and replacements made earlier in the run included.
C35_ReplacementKeepsGrace ==
    op.name = "recheck_tentative_bookings" =>
        \A i \in DOMAIN op.result.details :
            LET detail == op.result.details[i]
            IN  detail.action = "reshuffled" =>
                    \A r \in detail.after \ detail.before :
                        \A other \in detail.after \ {r} :
                            \/ r.endAt + 30 * 60 <= other.startAt
                            \/ other.endAt + 30 * 60 <= r.startAt


\* C36: a processing run (webhook background task or /book-job request)
\* that has ended without a ledger row for its quote has left no booking it
\* added.
C36_UnledgeredRunLeavesNoBooking ==
    \A t \in Tasks :
        tasks[t].pc = "done" =>
            \A row \in calander :
                row.by = t => get_processed_quote(processed_quotes, row.quote) # None


\* C37: the delete that follows a failed create_visit removes only the
\* booking the task added: every other booking, those of the same client
\* included, is still persisted afterwards.
C37_RollbackRemovesOwnBookingOnly ==
    [][\A t \in Tasks :
            (tasks[t].pc = "create_visit" /\ tasks'[t].visit = "failed") =>
                \A row \in calander : row.by # t => row \in calander']_vars


\* The task awaits create_job, create_visit or the notifications.
AwaitsCrm(t) == tasks[t].pc \in {"create_job", "create_visit", "notify"}

\* C38: BOOK_LOCK is held by a task exactly while that task is inside the
\* critical section, never while it awaits a CRM call; every exit from the
\* section, the no-slot exits included, releases it, and while a task
\* awaits a CRM call the lock is free for a task that waits to enter unless
\* another task is inside the section.
C38_LockHeldInSectionOnly ==
    /\ [](\A t \in Tasks :
            /\ BOOK_LOCK = t <=> InSection(t)
            /\ AwaitsCrm(t) => BOOK_LOCK # t
            /\ (AwaitsCrm(t) /\ \A u \in Tasks : ~InSection(u)) => BookLockAvailable)
    /\ [][\A t \in Tasks : (InSection(t) /\ ~InSection(t)') => BOOK_LOCK' = NoTask]_vars

\* One task awaits create_visit while another is inside the section and
\* holds the lock.
C38_Witness ==
    \E t \in Tasks, u \in Tasks :
        /\ tasks[t].pc = "create_visit"
        /\ InSection(u) /\ BOOK_LOCK = u


\* C39: generate_bookings run for a template right after a run for the same
\* active template, the schedule not changed in between, creates no
\* additional booking, whether the first run stored confirmed or tentative
\* bookings.
C39_SecondRunAddsNothing ==
    [][\A id \in 1..MaxOps :
          (/\ op.name = "generate_bookings_endpoint"
           /\ op.id = id
           /\ op.result.error = ""
           /\ GeneratesFor(id)) => calander' = calander]_vars


\* C40: compact_schedule changes only start and end times: as many bookings
\* are persisted after as before, and every moved booking keeps its client,
\* duration, job_tag and booking_status.
C40_CompactMovesOnly ==
    [][OptimizeSchedule =>
          /\ Cardinality(calander') = Cardinality(calander)
          /\ \A i \in DOMAIN op'.result.optimized_jobs :
                LET job == op'.result.optimized_jobs[i]
                IN  \E old \in calander, new \in calander' :
                        /\ old.client_id = job.client_id
                        /\ old.startAt = job.old_start
                        /\ new.client_id = job.client_id
                        /\ new.startAt = job.new_start
                        /\ new.endAt - new.startAt = old.endAt - old.startAt
                        /\ new.job_tag = old.job_tag
                        /\ new.booking_status = old.booking_status]_vars

=============================================================================
